---- MODULE Spec2Model ----
(***************************************************************************)
(* Item synchronisation between ERPNext Items and WooCommerce Products     *)
(* (woocommerce_fusion/tasks/sync_items.py).                               *)
(*                                                                         *)
(* The model follows one worker through run_item_sync / bulk_run_item_sync *)
(* and SynchroniseItem.run.  Every call that leaves the process (a remote  *)
(* insert, save or PUT, a save of the Item) is a step of its own whose     *)
(* outcome (answer or exception) is chosen nondeterministically.           *)
(*                                                                         *)
(* The derived sections of update_woocommerce_product (stock, spare-part   *)
(* compatibility, categories, bought together) and the customer doctype    *)
(* (woocommerce_customer.py) have specifications of their own, which hold  *)
(* the stores of the main model fixed.                                     *)
(***************************************************************************)
EXTENDS Integers, Sequences, FiniteSets, TLC

\* ------------------------------------------------------------------ bounds
MaxTime == 1
MaxCalls == 2
MaxBatch == 2

\* ---------------------------------------------------------------- universe
Workers == {"w1"}
Servers == {"S1", "S2"}
\* rows of the `WooCommerce Server` table in the order frappe.get_all returns them
ServerTable == <<"S1", "S2">>
ItemCodes == {"I1", "I2", "B1"}

\* python's None for an id, a marker, a field value; a jsonpath without match
NoId == 0
NoHash == -1
NoneVal == 0
Absent == -1

Paths == {"top", "nested"}
\* a field of a WooCommerce Product document that was never inserted: top-level
\* attributes exist (None), nested containers do not
NewTree == [p \in Paths |-> IF p = "top" THEN NoneVal ELSE Absent]

\* the field-group pushes of update_woocommerce_product, in the order it makes them
PushKinds == <<"sku", "images", "description", "shipping_class", "attributes",
               "branch_stock", "stock", "price", "mark_spare_part", "compatibility",
               "categories", "offer_category", "bought_together">>
\* the pushes made only when the Item carries the data for them
OptionalData == {"images", "shipping_class", "attributes", "compatibility", "categories"}

NoItem == [item_code |-> "", item_name |-> "", modified |-> 0,
           custom_disable_sync |-> FALSE, price |-> 0, has |-> {},
           fields |-> [f \in {"f_top", "f_nested"} |-> NoneVal],
           woocommerce_servers |-> <<>>, created_by_sync |-> FALSE]
NoDoc == [name |-> FALSE, type |-> "", woocommerce_server |-> "",
          woocommerce_id |-> NoId, woocommerce_name |-> "", woosb_ids |-> {},
          tree |-> NewTree, woocommerce_date_modified |-> NoHash]
NoBundle == [exists |-> FALSE, items |-> <<>>, description |-> ""]
\* no compatibility row under way
NoCompat == [pc |-> "none", tokens |-> <<>>, years |-> <<>>,
             result |-> [raised |-> FALSE, years |-> <<>>], expanded_years |-> <<>>]
\* no derived section under way, no customer synchronisation under way
NoUpd == [pc |-> "none"]
NoCust == [pc |-> "none"]

VARIABLES
    enable_sync,     \* WooCommerce Server.enable_sync, per server
    item_field_map,  \* WooCommerce Server.item_field_map (the same on every server)
    schema,          \* the paths a product stored on the remote carries
    bundles,         \* Product Bundle by new_item_code
    items,           \* the Item table (with its woocommerce_servers child rows)
    wc,              \* the products stored on the WooCommerce servers
    nextId,          \* per server, the id the next inserted product gets
    now,             \* the clock both stores stamp their writes with
    calls,           \* number of run_item_sync calls asked for so far
    run,             \* per worker: call frames, SynchroniseItem fields, observations
    compat,          \* an Item Compatibility row and what build_compatibility_data
                     \* makes of its `years`
    upd,             \* one derived section of update_woocommerce_product: the data
                     \* it reads, where it stands, the push_wc_product calls it made
    cust             \* the Customer table, the customers of the remote, and a
                     \* run_customer_sync under way

vars == <<enable_sync, item_field_map, schema, bundles, items, wc, nextId, now, calls, run,
          compat, upd, cust>>
\* what no step of a reconciliation writes
config == <<enable_sync, item_field_map, schema, bundles, compat, upd, cust>>

\* ------------------------------------------------------------ pure helpers
\* clean_product_name: the English part of a name when it has one
clean_product_name(name) ==
    CASE name = "ar Filter" -> "Filter"
      [] name = " Filter " -> "Filter"
      [] OTHER -> name

\* jsonpath_expr.find on the deserialised product: the list of matched values
Find(tree, path) == IF tree[path] = Absent THEN <<>> ELSE <<tree[path]>>

\* frappe.db.exists("Product Bundle", {"new_item_code": item_code})
is_bundle(item_code) == bundles[item_code].exists

\* ERPNextItemToSync.item_woocommerce_server
item_woocommerce_server(item, idx) == item.woocommerce_servers[idx]

\* the product stored on `server` under `id`, as a set (empty when there is none)
Stored(server, id) == {p \in wc : p.woocommerce_server = server /\ p.woocommerce_id = id}

\* a WooCommerce Product document as loaded from the remote
DocOf(p) == [name |-> TRUE, type |-> p.type, woocommerce_server |-> p.woocommerce_server,
             woocommerce_id |-> p.woocommerce_id, woocommerce_name |-> p.woocommerce_name,
             woosb_ids |-> p.woosb_ids, tree |-> p.tree, woocommerce_date_modified |-> p.date_modified]

\* the configured correspondences (erpnext_field_name, woocommerce_field_name)
TopMap == [erpnext_field_name |-> "f_top", woocommerce_field_name |-> "top"]
NestedMap == [erpnext_field_name |-> "f_nested", woocommerce_field_name |-> "nested"]
FieldMaps == {<<>>, <<TopMap, NestedMap>>}

RECURSIVE MapFields(_, _, _, _)
\* the loop of set_product_fields over item_field_map, from entry k on; the
\* deserialised product is updated in place, so a raise keeps the earlier writes
MapFields(k, doc, item, dirty) ==
    IF k > Len(item_field_map)
    THEN [raised |-> FALSE, dirty |-> dirty, doc |-> doc]
    ELSE LET map == item_field_map[k]
             erpnext_item_field_value == item.fields[map.erpnext_field_name]
             matches == Find(doc.tree, map.woocommerce_field_name)
         IN  IF Len(matches) = 0
             THEN IF doc.name
                  THEN [raised |-> TRUE, dirty |-> dirty, doc |-> doc]
                  ELSE MapFields(k + 1, doc, item, dirty)
             ELSE IF erpnext_item_field_value # matches[1]
                  THEN MapFields(k + 1,
                                 [doc EXCEPT !.tree[map.woocommerce_field_name] =
                                                 erpnext_item_field_value],
                                 item, TRUE)
                  ELSE MapFields(k + 1, doc, item, dirty)

\* a set_product_fields that reports a change whatever it finds
set_product_fields_always(doc, item) ==
    [raised |-> FALSE, dirty |-> TRUE, doc |-> doc]

\* set_product_fields: (raised, wc_product_dirty, woocommerce_product)
set_product_fields(doc, item) ==
    IF item # NoItem /\ doc # NoDoc
    THEN MapFields(1, doc, item, FALSE)
    ELSE [raised |-> FALSE, dirty |-> FALSE, doc |-> doc]

\* ------------------------------------------------------------ worker state
\* what one reconciliation (SynchroniseItem.run) did, reset when it starts
NoObs == [create_calls |-> 0, inserts |-> 0, updates |-> 0, saves |-> 0, item_saves |-> 0,
          pushed |-> <<>>, push_failed |-> FALSE,
          hash0 |-> NoHash, id0 |-> NoId, disabled |-> FALSE,
          create_failed |-> FALSE, pipe_failed |-> FALSE, unmapped |-> FALSE,
          equal_fields |-> FALSE, dirty_updates |-> 0, hash_written |-> FALSE]

\* how the previous reconciliation of this worker ended, and the state it left
NoPrev == [done |-> FALSE, clean |-> FALSE, item_code |-> "", idx |-> 0,
           item |-> NoItem, stored |-> {}]

InitRun == [pc |-> "idle", mode |-> "",
            batch |-> <<>>, bi |-> 0, success |-> <<>>, failed |-> <<>>,
            ok |-> {}, bad |-> {}, ris_create_failed |-> FALSE,
            item_code |-> "", wc_arg |-> NoDoc, result |-> "",
            item |-> NoItem, idx |-> 0, woocommerce_product |-> NoDoc,
            wc_product |-> NoDoc,
            site |-> "", caller |-> "", push |-> 0,
            err |-> "", obs |-> NoObs, prev |-> NoPrev, again |-> FALSE]

\* ------------------------------------------------------------------- Init
InitItem(code, servers) ==
    [item_code |-> code,
     item_name |-> CASE code = "I1" -> "Filter" [] code = "I2" -> "ar Filter"
                     [] OTHER -> " Filter ",
     modified |-> 0, custom_disable_sync |-> FALSE, price |-> 1,
     has |-> IF code = "I1" THEN OptionalData ELSE {},
     fields |-> [f \in {"f_top", "f_nested"} |-> IF f = "f_top" THEN 1 ELSE 2],
     woocommerce_servers |->
        [k \in 1..Len(servers) |->
            [woocommerce_server |-> servers[k], woocommerce_id |-> NoId,
             woocommerce_last_sync_hash |-> NoHash, enabled |-> TRUE]],
     created_by_sync |-> FALSE]

\* the server rows an Item starts with
ServerRows(code) ==
    CASE code = "I2" -> {<<>>, <<"S2">>}
      [] OTHER -> {<<"S1">>}
\* a quantity of a Product Bundle Item row (a Float): its whole part, and
\* whether it has a fractional part
Qty(whole, frac) == [whole |-> whole, frac |-> frac]
\* a quantity python takes as false: None or 0
NoQty == Qty(0, FALSE)

\* the bundle B1: two and a half of I1, and I2 without a quantity
TheBundle == [exists |-> TRUE,
              items |-> <<[item_code |-> "I1", qty |-> Qty(2, TRUE)],
                          [item_code |-> "I2", qty |-> NoQty]>>,
              description |-> ""]

\* the product an earlier, complete reconciliation of I1 left on S1 under id 1:
\* its mapped fields carry the Item's values where the remote has the path
SyncedProduct ==
    [woocommerce_server |-> "S1", woocommerce_id |-> 1, woocommerce_name |-> "Filter",
     type |-> "simple", woosb_ids |-> {},
     tree |-> [p \in Paths |->
                  IF p \notin schema THEN Absent
                  ELSE IF Len(item_field_map) = 0 THEN NoneVal
                  ELSE IF p = "top" THEN 1 ELSE 2],
     date_modified |-> 0]

\* the system starts either empty, or with I1 already synchronised to S1
InitStores ==
    /\ enable_sync \in [Servers -> BOOLEAN]
    /\ item_field_map \in FieldMaps
    /\ schema \in IF Len(item_field_map) = 2 THEN {{"top"}, {"top", "nested"}}
                  ELSE {{"top"}}
    /\ bundles = [i \in ItemCodes |-> IF i = "B1" THEN TheBundle ELSE NoBundle]
    /\ \E synced \in BOOLEAN :
          \E rows \in {f \in [ItemCodes -> UNION {ServerRows(c) : c \in ItemCodes}] :
                          \A c \in ItemCodes : f[c] \in ServerRows(c)} :
             LET fresh == [i \in ItemCodes |-> InitItem(i, rows[i])] IN
             IF synced
             THEN /\ items = [fresh EXCEPT
                                !["I1"].woocommerce_servers[1].woocommerce_id = 1,
                                !["I1"].woocommerce_servers[1].woocommerce_last_sync_hash = 0]
                  /\ wc = {SyncedProduct}
                  /\ nextId = [s \in Servers |-> IF s = "S1" THEN 2 ELSE 1]
             ELSE /\ items = fresh
                  /\ wc = {}
                  /\ nextId = [s \in Servers |-> 1]
    /\ now = 0
    /\ calls = 0
    /\ compat = NoCompat
    /\ upd = NoUpd
    /\ cust = NoCust

Init ==
    /\ InitStores
    /\ run = [w \in Workers |-> InitRun]

\* --------------------------------------------------------- frame helpers
Upd(w, r) == run' = [run EXCEPT ![w] = r]

\* a fresh SynchroniseItem for `item` and its server row `idx` (or for a product)
NewSync(r, item, idx, product) ==
    [r EXCEPT !.item = item, !.idx = idx, !.woocommerce_product = product,
              !.wc_product = NoDoc,
              !.site = "", !.caller = "", !.push = 0, !.err = "",
              !.pc = "run",
              !.again = /\ r.prev.done /\ r.prev.clean
                        /\ item # NoItem
                        /\ r.prev.item_code = item.item_code
                        /\ r.prev.idx = idx,
              !.obs = [NoObs EXCEPT
                         !.hash0 = IF item = NoItem THEN NoHash
                                   ELSE item.woocommerce_servers[idx].woocommerce_last_sync_hash,
                         !.id0 = IF item = NoItem THEN NoId
                                 ELSE item.woocommerce_servers[idx].woocommerce_id,
                         !.disabled = /\ item # NoItem
                                      /\ ~enable_sync[item.woocommerce_servers[idx].woocommerce_server]]]

\* an exception leaves SynchroniseItem.run: run() re-raises it
RunRaise(r, kind) == [r EXCEPT !.pc = "run_failed", !.err = kind]

\* ------------------------------------------------------------ entry points
\* a caller invokes run_item_sync(item_code=..., woocommerce_product=...)
CallRunItemSync(w) ==
    /\ run[w].pc = "idle"
    /\ calls < MaxCalls
    /\ \E code \in ItemCodes \cup {""}, product \in {NoDoc} \cup {DocOf(p) : p \in wc} :
          Upd(w, [run[w] EXCEPT !.pc = "run_item_sync", !.mode = "single",
                                !.item_code = code, !.wc_arg = product, !.result = "",
                                !.err = "", !.batch = <<>>, !.bi = 0,
                                !.success = <<>>, !.failed = <<>>,
                                !.ok = {}, !.bad = {}])
    /\ calls' = calls + 1
    /\ UNCHANGED <<config, items, wc, nextId, now>>

\* a caller invokes bulk_run_item_sync(items)
CallBulk(w) ==
    /\ run[w].pc = "idle"
    /\ \E n \in 0..MaxBatch : \E list \in [1..n -> ItemCodes] :
          /\ calls + n <= MaxCalls
          /\ calls' = calls + n
          /\ Upd(w, [run[w] EXCEPT !.pc = "bulk_loop", !.mode = "bulk", !.batch = list,
                                   !.bi = 1, !.success = <<>>, !.failed = <<>>,
                                   !.ok = {}, !.bad = {}, !.item_code = "",
                                   !.wc_arg = NoDoc, !.result = "", !.err = ""])
    /\ UNCHANGED <<config, items, wc, nextId, now>>

\* the Item with the marker cleared on every server row that has `enabled` set
ClearedHashes(item) ==
    [item EXCEPT !.woocommerce_servers =
        [k \in 1..Len(item.woocommerce_servers) |->
            IF item.woocommerce_servers[k].enabled
            THEN [item.woocommerce_servers[k] EXCEPT !.woocommerce_last_sync_hash = NoHash]
            ELSE item.woocommerce_servers[k]]]

\* run_item_sync_from_hook for an Item document saved outside the sync, and the
\* job it enqueues, clear_sync_hash_and_run_item_sync: the markers are cleared
\* and, when a row was found, run_item_sync(item_code, enqueue=True) is called;
\* the worker takes the enqueued runs itself, one after the other
CallHook(w) ==
    /\ run[w].pc = "idle"
    /\ calls < MaxCalls
    /\ \E code \in ItemCodes :
          LET iwss == {k \in 1..Len(items[code].woocommerce_servers) :
                          items[code].woocommerce_servers[k].enabled}
          IN  /\ Len(items[code].woocommerce_servers) > 0
              /\ items' = [items EXCEPT ![code] = ClearedHashes(items[code])]
              /\ Upd(w, [run[w] EXCEPT !.pc = IF iwss # {} THEN "run_item_sync" ELSE "idle",
                                        !.mode = "hook",
                                        !.item_code = code, !.wc_arg = NoDoc, !.result = "",
                                        !.err = "", !.batch = <<>>, !.bi = 0,
                                        !.success = <<>>, !.failed = <<>>,
                                        !.ok = {}, !.bad = {}])
    /\ calls' = calls + 1
    /\ UNCHANGED <<config, wc, nextId, now>>

\* bulk_run_item_sync, the head of the loop: the next item_code, or the message
BulkLoop(w) ==
    /\ run[w].pc = "bulk_loop"
    /\ LET r == run[w] IN
          IF r.bi <= Len(r.batch)
          THEN Upd(w, [r EXCEPT !.pc = "run_item_sync", !.item_code = r.batch[r.bi],
                                !.wc_arg = NoDoc, !.err = ""])
          ELSE Upd(w, [r EXCEPT !.pc = "idle", !.result = "message", !.err = ""])
    /\ UNCHANGED <<config, items, wc, nextId, now, calls>>

\* run_item_sync returned, or raised, to its caller
\* the locals of a finished run_item_sync are gone
Forget(r) ==
    [r EXCEPT !.item = NoItem, !.idx = 0, !.woocommerce_product = NoDoc,
              !.wc_product = NoDoc, !.site = "", !.caller = "",
              !.push = 0, !.obs = NoObs, !.again = FALSE,
              !.ris_create_failed = FALSE]
\* bulk_run_item_sync, the try block: run_item_sync returned
BulkSucceeded(r) ==
    [r EXCEPT !.pc = "bulk_loop", !.bi = r.bi + 1,
              !.success = Append(r.success, r.item_code),
              !.ok = r.ok \cup {r.bi}]
\* an except block that records the failure and leaves the loop
BulkFailedAbort(r, kind) ==
    [r EXCEPT !.pc = "bulk_loop", !.bi = Len(r.batch) + 1, !.err = kind,
              !.failed = Append(r.failed, [item_code |-> r.item_code, error |-> kind])]

\* bulk_run_item_sync, the except block: run_item_sync raised
BulkFailed(r, kind) ==
    [r EXCEPT !.pc = "bulk_loop", !.bi = r.bi + 1, !.err = kind,
              !.failed = Append(r.failed, [item_code |-> r.item_code, error |-> kind])]

\* the batch positions whose run_item_sync had a create step fail
Noted(r) ==
    [r EXCEPT !.bad = IF r.mode = "bulk" /\ (r.ris_create_failed \/ r.obs.create_failed)
                      THEN r.bad \cup {r.bi} ELSE r.bad]

RisReturn(r) ==
    IF r.mode = "bulk"
    THEN BulkSucceeded(Forget(Noted(r)))
    ELSE [Forget(r) EXCEPT !.pc = "idle", !.result = "returned"]
RisRaise(r, kind) ==
    IF r.mode = "bulk"
    THEN BulkFailed(Forget(Noted(r)), kind)
    ELSE [Forget(r) EXCEPT !.pc = "idle", !.result = "raised", !.err = kind]

\* the two ValueErrors of the module, told apart by their message
InputError == "ValueError: At least one of item_code, woocommerce_product required"
FieldNotFound == "ValueError: Field not found in WooCommerce Product"

\* an input check that asks for exactly one starting point
NotOneStartingPoint(item_code, product) == (item_code = "") = (product = NoDoc)

\* run_item_sync, its input check: `not any([item_code, item,
\* woocommerce_product_name, woocommerce_product])`
NoStartingPoint(item_code, product) == item_code = "" /\ product = NoDoc

\* run_item_sync up to the first SynchroniseItem.run
RunItemSync(w) ==
    /\ run[w].pc = "run_item_sync"
    /\ LET r == run[w]
           item == items[r.item_code]
       IN  IF NoStartingPoint(r.item_code, r.wc_arg)
           THEN Upd(w, RisRaise(r, InputError))
           ELSE IF r.wc_arg # NoDoc
           THEN Upd(w, NewSync(r, NoItem, 0, r.wc_arg))
           ELSE IF item.custom_disable_sync \/ item.price <= 0
           THEN Upd(w, RisReturn(r))
           ELSE IF Len(item.woocommerce_servers) = 0
           THEN Upd(w, RisRaise(r, "ValidationError"))
           ELSE Upd(w, NewSync(r, item, 1, NoDoc))
    /\ UNCHANGED <<config, items, wc, nextId, now, calls>>

\* ------------------------------------------------- SynchroniseItem.run
\* the rows of `Item WooCommerce Server` that carry this server and id
LinkedRows(server, id) ==
    UNION {{<<c, k>> : k \in {j \in 1..Len(items[c].woocommerce_servers) :
                /\ items[c].woocommerce_servers[j].woocommerce_server = server
                /\ items[c].woocommerce_servers[j].woocommerce_id = id}} : c \in ItemCodes}

\* get_corresponding_item_or_product
Resolve(w) ==
    /\ run[w].pc = "run"
    /\ LET r == run[w]
           link == item_woocommerce_server(r.item, r.idx)
       IN  IF r.item # NoItem /\ r.woocommerce_product = NoDoc
              /\ link.woocommerce_id # NoId
           THEN IF ~enable_sync[link.woocommerce_server]
                THEN Upd(w, RunRaise(r, "SyncDisabledError"))
                ELSE LET wc_products == Stored(link.woocommerce_server, link.woocommerce_id)
                     IN  IF wc_products = {}
                         THEN Upd(w, [r EXCEPT !.pc = "create", !.site = "A"])
                         ELSE Upd(w, [r EXCEPT !.pc = "sync",
                                        !.woocommerce_product =
                                            DocOf(CHOOSE p \in wc_products : TRUE)])
           ELSE IF r.woocommerce_product # NoDoc /\ r.item = NoItem
           THEN LET rows == LinkedRows(r.woocommerce_product.woocommerce_server,
                                       r.woocommerce_product.woocommerce_id)
                IN  IF rows = {}
                    THEN Upd(w, [r EXCEPT !.pc = "sync"])
                    ELSE \E row \in rows :
                            Upd(w, [r EXCEPT !.pc = "sync", !.item = items[row[1]],
                                      !.idx = row[2],
                                      !.obs.hash0 = items[row[1]].woocommerce_servers[row[2]]
                                                        .woocommerce_last_sync_hash,
                                      !.obs.id0 = r.woocommerce_product.woocommerce_id,
                                      !.obs.disabled =
                                          ~enable_sync[r.woocommerce_product.woocommerce_server]])
           ELSE Upd(w, [r EXCEPT !.pc = "sync"])
    /\ UNCHANGED <<config, items, wc, nextId, now, calls>>

\* a create_item that fails instead of returning
create_item_raises(r) ==
    RunRaise(r, "NotImplementedError")

\* create_item: returns on its first line, nothing is created in ERPNext
create_item(r) ==
    [r EXCEPT !.pc = "run_done"]

\* a sync_wc_product_with_erpnext_item that leaves a product alone when it was
\* modified after the Item
DecideNewerWins(w) ==
    /\ run[w].pc = "sync"
    /\ LET r == run[w] IN
          IF r.item # NoItem /\ r.woocommerce_product = NoDoc
          THEN Upd(w, [r EXCEPT !.pc = "create", !.site = "B"])
          ELSE IF r.woocommerce_product # NoDoc /\ r.item = NoItem
          THEN Upd(w, create_item(r))
          ELSE IF r.woocommerce_product.woocommerce_date_modified > r.item.modified
          THEN Upd(w, [r EXCEPT !.pc = "run_done", !.caller = "C"])
          ELSE Upd(w, [r EXCEPT !.pc = "update", !.caller = "C"])
    /\ UNCHANGED <<config, items, wc, nextId, now, calls>>

\* sync_wc_product_with_erpnext_item, up to its first call
Decide(w) ==
    /\ run[w].pc = "sync"
    /\ LET r == run[w] IN
          IF r.item # NoItem /\ r.woocommerce_product = NoDoc
          THEN Upd(w, [r EXCEPT !.pc = "create", !.site = "B"])
          ELSE IF r.woocommerce_product # NoDoc /\ r.item = NoItem
          THEN Upd(w, create_item(r))
          ELSE Upd(w, [r EXCEPT !.pc = "update", !.caller = "C"])
    /\ UNCHANGED <<config, items, wc, nextId, now, calls>>

\* the product as the remote stores and answers it: a path the document did not
\* carry exists remotely exactly when the remote's schema has it
StoredTree(tree) ==
    [p \in Paths |-> IF tree[p] # Absent THEN tree[p]
                     ELSE IF p \in schema THEN NoneVal ELSE Absent]
StoredProduct(doc, id) ==
    [woocommerce_server |-> doc.woocommerce_server, woocommerce_id |-> id,
     woocommerce_name |-> doc.woocommerce_name, type |-> doc.type,
     woosb_ids |-> doc.woosb_ids, tree |-> StoredTree(doc.tree), date_modified |-> now]

\* create_woocommerce_product, up to wc_product.insert()
Create(w) ==
    /\ run[w].pc = "create"
    /\ LET r == run[w]
           link == item_woocommerce_server(r.item, r.idx)
           existing == IF link.woocommerce_id # NoId
                       THEN Stored(link.woocommerce_server, link.woocommerce_id)
                       ELSE {}
           wc_product == IF existing # {} THEN DocOf(CHOOSE p \in existing : TRUE)
                         ELSE [NoDoc EXCEPT !.type = "simple"]
           named == [wc_product EXCEPT
                        !.woocommerce_name = clean_product_name(r.item.item_name),
                        !.woocommerce_server = link.woocommerce_server]
           mapped == set_product_fields(named, r.item).doc
       IN  IF is_bundle(r.item.item_code)
           THEN Upd(w, [r EXCEPT !.pc = "bundle"])
           ELSE Upd(w, [r EXCEPT !.wc_product = mapped,
                                 !.pc = IF mapped.name THEN "link_save" ELSE "insert"])
    /\ UNCHANGED <<config, items, wc, nextId, now, calls>>

\* wc_product.insert() of create_woocommerce_product: the remote answers or fails
Insert(w) ==
    /\ run[w].pc = "insert"
    /\ LET r == run[w]
           doc == r.wc_product
           id == nextId[doc.woocommerce_server]
           p == StoredProduct(doc, id)
       IN  \/ /\ wc' = wc \cup {p}
              /\ nextId' = [nextId EXCEPT ![doc.woocommerce_server] = id + 1]
              /\ Upd(w, [r EXCEPT !.wc_product = DocOf(p), !.pc = "link_save",
                                  !.obs.create_calls = r.obs.create_calls + 1,
                                  !.obs.inserts = r.obs.inserts + 1])
           \/ /\ Upd(w, RunRaise([r EXCEPT !.obs.create_calls = r.obs.create_calls + 1,
                                            !.obs.create_failed = TRUE], "InsertError"))
              /\ UNCHANGED <<wc, nextId>>
    /\ UNCHANGED <<config, items, now, calls>>

\* the Item document with the product's id on its server row `idx`
WithId(item, idx, id) == [item EXCEPT !.woocommerce_servers[idx].woocommerce_id = id]

\* create_woocommerce_product: self.woocommerce_product = wc_product, then the
\* try block that reloads the Item, records the id and saves it
LinkSave(w) ==
    /\ run[w].pc = "link_save"
    /\ LET r == run[w]
           code == r.item.item_code
           id == r.wc_product.woocommerce_id
           reloaded == [WithId(items[code], r.idx, id) EXCEPT !.created_by_sync = TRUE]
           saved == [reloaded EXCEPT !.modified = now]
       IN  \/ /\ items' = [items EXCEPT ![code] = [saved EXCEPT !.created_by_sync = FALSE]]
              /\ Upd(w, [r EXCEPT !.woocommerce_product = r.wc_product, !.item = saved,
                                  !.pc = "update", !.caller = "create",
                                  !.obs.item_saves = r.obs.item_saves + 1])
           \/ /\ UNCHANGED items
              /\ Upd(w, [r EXCEPT !.woocommerce_product = r.wc_product, !.item = reloaded,
                                  !.pc = "update", !.caller = "create",
                                  !.obs.create_failed = TRUE])
    /\ UNCHANGED <<config, wc, nextId, now, calls>>

\* an exception leaves update_woocommerce_product: its two callers on the create
\* path log it and go on, sync_wc_product_with_erpnext_item lets it through
UpdateRaise(r, kind) ==
    LET f == [r EXCEPT !.obs.pipe_failed = TRUE] IN
    CASE r.caller = "create" -> [f EXCEPT !.pc = "set_sync_hash"]
      [] r.caller = "bundle" -> [f EXCEPT !.pc = "create_return"]
      [] OTHER -> RunRaise(f, kind)

\* update_woocommerce_product returned to its caller
UpdateReturn(r) ==
    CASE r.caller = "create" -> [r EXCEPT !.pc = "set_sync_hash"]
      [] r.caller = "bundle" -> [r EXCEPT !.pc = "create_return"]
      [] r.caller = "C" ->
            IF r.woocommerce_product.woocommerce_date_modified < r.item.modified
            THEN [r EXCEPT !.pc = "update", !.caller = "D"]
            ELSE [r EXCEPT !.pc = "run_done"]
      [] OTHER -> [r EXCEPT !.pc = "run_done"]

\* update_woocommerce_product, from its first line to the decision to save
Update(w) ==
    /\ run[w].pc = "update"
    /\ LET r == run[w]
           server == ServerTable[1]
           code == r.item.item_code
           clean_name == clean_product_name(r.item.item_name)
           doc == r.woocommerce_product
           renamed ==
               IF is_bundle(code)
               THEN [doc EXCEPT !.woocommerce_name =
                        IF bundles[code].description # "" THEN bundles[code].description
                        ELSE clean_name]
               ELSE [doc EXCEPT !.woocommerce_name = clean_name]
           wc_product_dirty == is_bundle(code) \/ doc.woocommerce_name # clean_name
           sp == set_product_fields(renamed, r.item)
       IN  IF ~enable_sync[server]
           THEN Upd(w, UpdateReturn(r))
           ELSE IF sp.raised
           THEN Upd(w, UpdateRaise([r EXCEPT !.woocommerce_product = sp.doc,
                                             !.obs.updates = r.obs.updates + 1,
                                             !.obs.unmapped = TRUE], FieldNotFound))
           ELSE Upd(w, [r EXCEPT !.woocommerce_product = sp.doc,
                                 !.obs.updates = r.obs.updates + 1,
                                 !.obs.equal_fields = ~sp.dirty,
                                 !.obs.dirty_updates =
                                     IF wc_product_dirty \/ sp.dirty
                                     THEN r.obs.dirty_updates + 1
                                     ELSE r.obs.dirty_updates,
                                 !.pc = IF wc_product_dirty \/ sp.dirty THEN "save"
                                        ELSE "push",
                                 !.push = 1])
    /\ UNCHANGED <<config, items, wc, nextId, now, calls>>

\* wc_product.save() of update_woocommerce_product: the remote answers or fails
Save(w) ==
    /\ run[w].pc = "save"
    /\ LET r == run[w]
           doc == r.woocommerce_product
           p == StoredProduct(doc, doc.woocommerce_id)
           old == Stored(doc.woocommerce_server, doc.woocommerce_id)
       IN  \/ /\ old # {}
              /\ wc' = (wc \ old) \cup {p}
              /\ Upd(w, [r EXCEPT !.woocommerce_product = DocOf(p), !.pc = "push",
                                  !.obs.saves = r.obs.saves + 1])
           \/ /\ UNCHANGED wc
              /\ Upd(w, UpdateRaise(r, "SaveError"))
    /\ UNCHANGED <<config, items, nextId, now, calls>>

\* some Item anywhere carries a WooCommerce id (the bought-together fallback query)
AnyLinked ==
    \E c \in ItemCodes : \E k \in 1..Len(items[c].woocommerce_servers) :
        items[c].woocommerce_servers[k].woocommerce_id # NoId

\* whether update_woocommerce_product makes the push `kind` for `item`
Wanted(kind, item) ==
    CASE kind \in OptionalData -> kind \in item.has
      [] kind = "bought_together" -> AnyLinked
      [] OTHER -> TRUE

\* the server push_wc_product sends to: the first row of `WooCommerce Server`
\* with enable_sync set, whichever server the product belongs to
PushServer ==
    ServerTable[CHOOSE k \in 1..Len(ServerTable) :
                    /\ enable_sync[ServerTable[k]]
                    /\ \A j \in 1..(k - 1) : ~enable_sync[ServerTable[j]]]

\* a push_wc_product that lets the failure of its PUT through to the caller
PushOrRaise(w) ==
    /\ run[w].pc = "push"
    /\ LET r == run[w]
           doc == r.woocommerce_product
           old == Stored(PushServer, doc.woocommerce_id)
           next == [r EXCEPT !.push = r.push + 1]
       IN  IF r.push > Len(PushKinds)
           THEN Upd(w, UpdateReturn(r)) /\ UNCHANGED wc
           ELSE IF ~Wanted(PushKinds[r.push], r.item)
           THEN Upd(w, next) /\ UNCHANGED wc
           ELSE \/ /\ old # {}
                   /\ wc' = (wc \ old) \cup {[p EXCEPT !.date_modified = now] : p \in old}
                   /\ Upd(w, [next EXCEPT !.obs.pushed = Append(r.obs.pushed, PushKinds[r.push])])
                \/ /\ UNCHANGED wc
                   /\ Upd(w, UpdateRaise([r EXCEPT !.obs.pushed =
                                                      Append(r.obs.pushed, PushKinds[r.push]),
                                                  !.obs.push_failed = TRUE], "PushError"))
    /\ UNCHANGED <<config, items, nextId, now, calls>>

\* one field-group push of update_woocommerce_product (push_wc_product): the PUT
\* to /products/<id> is answered, or fails and is logged; neither raises
Push(w) ==
    /\ run[w].pc = "push"
    /\ LET r == run[w]
           doc == r.woocommerce_product
           old == Stored(PushServer, doc.woocommerce_id)
           next == [r EXCEPT !.push = r.push + 1]
       IN  IF r.push > Len(PushKinds)
           THEN Upd(w, UpdateReturn(r)) /\ UNCHANGED wc
           ELSE IF ~Wanted(PushKinds[r.push], r.item)
           THEN Upd(w, next) /\ UNCHANGED wc
           ELSE \/ /\ old # {}
                   /\ wc' = (wc \ old) \cup {[p EXCEPT !.date_modified = now] : p \in old}
                   /\ Upd(w, [next EXCEPT !.obs.pushed = Append(r.obs.pushed, PushKinds[r.push])])
                \/ /\ UNCHANGED wc
                   /\ Upd(w, [next EXCEPT !.obs.pushed = Append(r.obs.pushed, PushKinds[r.push]),
                                          !.obs.push_failed = TRUE])
    /\ UNCHANGED <<config, items, nextId, now, calls>>

\* a set_sync_hash that writes through a save of the Item, which stamps it
set_sync_hash_by_save(item, idx, marker) ==
    [item EXCEPT !.woocommerce_servers[idx].woocommerce_last_sync_hash = marker,
                 !.woocommerce_servers[idx].enabled = TRUE,
                 !.modified = now]

\* set_sync_hash, its two frappe.db.set_value(..., update_modified=False) on the
\* row: the Item as the database holds it afterwards
set_sync_hash(item, idx, marker) ==
    [item EXCEPT !.woocommerce_servers[idx].woocommerce_last_sync_hash = marker,
                 !.woocommerce_servers[idx].enabled = TRUE]

\* set_sync_hash: frappe.db.set_value on the row, the Item document is not saved
SetSyncHash(w) ==
    /\ run[w].pc = "set_sync_hash"
    /\ LET r == run[w]
           code == r.item.item_code
       IN  /\ items' = [items EXCEPT ![code] =
                 set_sync_hash(items[code], r.idx,
                               r.woocommerce_product.woocommerce_date_modified)]
           /\ Upd(w, [r EXCEPT !.pc = "create_return", !.obs.hash_written = TRUE])
    /\ UNCHANGED <<config, wc, nextId, now, calls>>

\* create_woocommerce_product returned to the place that called it
CreateReturn(w) ==
    /\ run[w].pc = "create_return"
    /\ Upd(w, [run[w] EXCEPT !.pc = IF run[w].site = "A" THEN "sync" ELSE "run_done"])
    /\ UNCHANGED <<config, items, wc, nextId, now, calls>>

\* frappe.db.get_value("Item WooCommerce Server", {"parent": code}, "woocommerce_id")
ChildWcId(code) ==
    IF Len(items[code].woocommerce_servers) = 0 THEN NoId
    ELSE items[code].woocommerce_servers[1].woocommerce_id

\* int(qty or 1) of create_bundle_product
IntQtyOr1(qty) == IF qty = NoQty THEN 1 ELSE qty.whole

\* a woosb_ids payload with an entry for every child row, linked or not
WoosbIdsOfAllRows(bundle_items) ==
    {[key |-> k - 1, id |-> ChildWcId(bundle_items[k].item_code),
      sku |-> bundle_items[k].item_code,
      qty |-> IntQtyOr1(bundle_items[k].qty)] : k \in 1..Len(bundle_items)}

\* the woosb_ids payload of create_bundle_product: one entry per child row that
\* has a WooCommerce id, keyed by the row's position
WoosbIds(bundle_items) ==
    {[key |-> k - 1, id |-> ChildWcId(bundle_items[k].item_code),
      sku |-> bundle_items[k].item_code,
      qty |-> IntQtyOr1(bundle_items[k].qty)] :
        k \in {j \in 1..Len(bundle_items) : ChildWcId(bundle_items[j].item_code) # NoId}}

\* create_bundle_product, up to wc_product.insert()
Bundle(w) ==
    /\ run[w].pc = "bundle"
    /\ LET r == run[w]
           code == r.item.item_code
           bundle_doc == bundles[code]
           woosb_ids == WoosbIds(bundle_doc.items)
           clean_name == clean_product_name(r.item.item_name)
           wc_product ==
               [NoDoc EXCEPT !.type = "woosb",
                    !.woocommerce_name = IF bundle_doc.description # ""
                                         THEN bundle_doc.description ELSE clean_name,
                    !.woocommerce_server =
                        item_woocommerce_server(r.item, r.idx).woocommerce_server,
                    !.woosb_ids = woosb_ids]
       IN  IF Len(bundle_doc.items) = 0 \/ woosb_ids = {}
           THEN Upd(w, [r EXCEPT !.pc = "create_return"])
           ELSE Upd(w, [r EXCEPT !.pc = "bundle_insert", !.wc_product = wc_product])
    /\ UNCHANGED <<config, items, wc, nextId, now, calls>>

\* wc_product.insert() of create_bundle_product; its failure is logged, not raised
BundleInsert(w) ==
    /\ run[w].pc = "bundle_insert"
    /\ LET r == run[w]
           doc == r.wc_product
           id == nextId[doc.woocommerce_server]
           p == StoredProduct(doc, id)
       IN  \/ /\ wc' = wc \cup {p}
              /\ nextId' = [nextId EXCEPT ![doc.woocommerce_server] = id + 1]
              /\ Upd(w, [r EXCEPT !.wc_product = DocOf(p), !.pc = "bundle_link_save",
                                  !.obs.create_calls = r.obs.create_calls + 1,
                                  !.obs.inserts = r.obs.inserts + 1])
           \/ /\ Upd(w, [r EXCEPT !.pc = "create_return",
                                  !.obs.create_calls = r.obs.create_calls + 1,
                                  !.obs.create_failed = TRUE])
              /\ UNCHANGED <<wc, nextId>>
    /\ UNCHANGED <<config, items, now, calls>>

\* create_bundle_product: self.woocommerce_product = wc_product, the id is put on
\* the row and the Item document is saved as it is in memory (no reload, no flag)
BundleLinkSave(w) ==
    /\ run[w].pc = "bundle_link_save"
    /\ LET r == run[w]
           code == r.item.item_code
           linked == WithId(r.item, r.idx, r.wc_product.woocommerce_id)
           saved == [linked EXCEPT !.modified = now]
       IN  \/ /\ items' = [items EXCEPT ![code] = [saved EXCEPT !.created_by_sync = FALSE]]
              /\ Upd(w, [r EXCEPT !.woocommerce_product = r.wc_product, !.item = saved,
                                  !.pc = "update", !.caller = "bundle",
                                  !.obs.item_saves = r.obs.item_saves + 1])
           \/ /\ UNCHANGED items
              /\ Upd(w, [r EXCEPT !.woocommerce_product = r.wc_product, !.item = linked,
                                  !.pc = "create_return", !.obs.create_failed = TRUE])
    /\ UNCHANGED <<config, wc, nextId, now, calls>>

\* the state a finished reconciliation leaves for its item and server row
Snapshot(r, done) ==
    IF r.item = NoItem THEN [NoPrev EXCEPT !.done = done]
    ELSE LET link == items[r.item.item_code].woocommerce_servers[r.idx] IN
         [done |-> done,
          clean |-> ~r.obs.create_failed /\ ~r.obs.pipe_failed /\ ~r.obs.push_failed,
          item_code |-> r.item.item_code, idx |-> r.idx,
          item |-> items[r.item.item_code],
          stored |-> Stored(link.woocommerce_server, link.woocommerce_id)]

\* SynchroniseItem.run returned: run_item_sync goes to the Item's next server
\* row, or returns
RunDone(w) ==
    /\ run[w].pc = "run_done"
    /\ LET r == [run[w] EXCEPT !.prev = Snapshot(run[w], TRUE)] IN
          IF r.wc_arg = NoDoc /\ r.idx < Len(r.item.woocommerce_servers)
          THEN Upd(w, NewSync([r EXCEPT !.ris_create_failed =
                                           r.ris_create_failed \/ r.obs.create_failed],
                              r.item, r.idx + 1, NoDoc))
          ELSE Upd(w, RisReturn(r))
    /\ UNCHANGED <<config, items, wc, nextId, now, calls>>

\* SynchroniseItem.run raised: run_item_sync lets the exception through
RunFailed(w) ==
    /\ run[w].pc = "run_failed"
    /\ Upd(w, RisRaise([run[w] EXCEPT !.prev = Snapshot(run[w], FALSE)], run[w].err))
    /\ UNCHANGED <<config, items, wc, nextId, now, calls>>

\* a product is deleted on its WooCommerce server, by somebody else
RemoteDelete ==
    /\ \A w \in Workers : run[w].pc = "idle"
    /\ calls < MaxCalls
    /\ \E p \in wc : wc' = wc \ {p}
    /\ run' = [w \in Workers |-> [run[w] EXCEPT !.prev = NoPrev]]
    /\ UNCHANGED <<config, items, nextId, now, calls>>

\* the steps that call out of the process and so read the clock
ClockPcs == {"idle", "insert", "link_save", "bundle_insert", "bundle_link_save", "save"}

\* time passes; only a step that stamps a write sees it, so the clock moves
\* right before such a step (before the first of a run of pushes)
Tick ==
    /\ now < MaxTime
    /\ \A w \in Workers : \/ run[w].pc \in ClockPcs
                            \/ (run[w].pc = "push" /\ run[w].push = 1)
    /\ now' = now + 1
    /\ UNCHANGED <<config, items, wc, nextId, calls, run>>

Next ==
    \/ \E w \in Workers :
          \/ CallRunItemSync(w) \/ CallBulk(w) \/ CallHook(w)
          \/ BulkLoop(w) \/ RunItemSync(w)
          \/ Resolve(w) \/ Decide(w) \/ Create(w) \/ Insert(w) \/ LinkSave(w)
          \/ Bundle(w) \/ BundleInsert(w) \/ BundleLinkSave(w)
          \/ Update(w) \/ Save(w) \/ Push(w) \/ SetSyncHash(w) \/ CreateReturn(w)
          \/ RunDone(w) \/ RunFailed(w)
    \/ RemoteDelete
    \/ Tick

Spec == Init /\ [][Next]_vars

\* ------------------------------------------------ two queue workers at once
\* frappe.enqueue hands the jobs to background workers; two of them may each
\* take a clear_sync_hash_and_run_item_sync job at the same time
Racers == {"w1", "w2"}

\* nothing synchronised yet, sync enabled on every server
InitRace ==
    /\ InitStores
    /\ wc = {}
    /\ \A s \in Servers : enable_sync[s]
    /\ run = [w \in Racers |-> InitRun]

NextRace ==
    \E w \in Racers :
        \/ CallHook(w) \/ RunItemSync(w)
        \/ Resolve(w) \/ Decide(w) \/ Create(w) \/ Insert(w) \/ LinkSave(w)
        \/ Bundle(w) \/ BundleInsert(w) \/ BundleLinkSave(w)
        \/ Update(w) \/ Save(w) \/ Push(w) \/ SetSyncHash(w) \/ CreateReturn(w)
        \/ RunDone(w) \/ RunFailed(w)

SpecRace == InitRace /\ [][NextRace]_vars

\* ------------------------------------------------------------ expand_years
\* texts are sequences of one-character strings
MaxTokens == 2

Digits == <<"0", "1", "2", "3", "4", "5", "6", "7", "8", "9">>
IsDigit(c) == \E d \in 1..10 : Digits[d] = c
DigitVal(c) == (CHOOSE d \in 1..10 : Digits[d] = c) - 1

\* int(s) raises ValueError: s is empty or has a character that is not a digit
IntRaises(s) == s = <<>> \/ \E k \in 1..Len(s) : ~IsDigit(s[k])

RECURSIVE IntOf(_)
\* int(s) for a string of digits
IntOf(s) ==
    IF s = <<>> THEN 0
    ELSE 10 * IntOf(SubSeq(s, 1, Len(s) - 1)) + DigitVal(s[Len(s)])

RECURSIVE StrOf(_)
\* str(n) for n >= 0
StrOf(n) ==
    IF n < 10 THEN <<Digits[n + 1]>>
    ELSE StrOf(n \div 10) \o <<Digits[(n % 10) + 1]>>

RECURSIVE SplitOn(_, _)
\* s.split(sep) for a set of separator characters: the pieces between them,
\* empty ones included
SplitOn(s, seps) ==
    IF \A k \in 1..Len(s) : s[k] \notin seps THEN <<s>>
    ELSE LET k == CHOOSE i \in 1..Len(s) :
                      s[i] \in seps /\ \A j \in 1..(i - 1) : s[j] \notin seps
         IN  <<SubSeq(s, 1, k - 1)>> \o SplitOn(SubSeq(s, k + 1, Len(s)), seps)

\* a normalize that gives every 2-digit year the century 20
normalize_always_20(year, base) ==
    IF Len(year) = 2 THEN <<"2", "0">> \o year ELSE year

\* normalize of expand_years; base is <<>> when it is not given
normalize(year, base) ==
    IF Len(year) = 2
    THEN (IF base # <<>> /\ Len(base) = 4 THEN SubSeq(base, 1, 2) ELSE <<"2", "0">>) \o year
    ELSE year

\* the years a part of the text adds to `results`, or the ValueError it raises
PartYears(part) ==
    IF \E k \in 1..Len(part) : part[k] = "-"
    THEN LET pieces == SplitOn(part, {"-"}) IN
         IF Len(pieces) # 2 THEN [raised |-> TRUE, years |-> <<>>]
         ELSE LET start == normalize(pieces[1], <<>>)
                  end == normalize(pieces[2], start)
              IN  IF IntRaises(start) \/ IntRaises(end)
                  THEN [raised |-> TRUE, years |-> <<>>]
                  ELSE [raised |-> FALSE,
                        years |-> [i \in 1..(IF IntOf(end) >= IntOf(start)
                                             THEN IntOf(end) - IntOf(start) + 1 ELSE 0) |->
                                      StrOf(IntOf(start) + i - 1)]]
    ELSE [raised |-> FALSE, years |-> <<normalize(part, <<>>)>>]

RECURSIVE Collect(_, _, _)
\* the loop of expand_years over the parts, from part k on
Collect(parts, k, results) ==
    IF k > Len(parts) THEN [raised |-> FALSE, years |-> results]
    ELSE IF parts[k] = <<>> THEN Collect(parts, k + 1, results)
    ELSE LET py == PartYears(parts[k]) IN
         IF py.raised THEN py
         ELSE Collect(parts, k + 1, results \o py.years)

RECURSIVE SortedByInt(_)
\* sorted(set_of_strings, key=int)
SortedByInt(strs) ==
    IF strs = {} THEN <<>>
    ELSE LET least == CHOOSE x \in strs : \A y \in strs : IntOf(x) <= IntOf(y)
         IN  <<least>> \o SortedByInt(strs \ {least})

\* expand_years(text): the list it returns, or the ValueError it raises. The
\* text is stripped and split at runs of commas and blanks; the split here is
\* at each of them, the empty parts being skipped by the loop either way
expand_years(text) ==
    LET parts == SplitOn(text, {",", " "})
        collected == Collect(parts, 1, <<>>)
        results == {collected.years[k] : k \in 1..Len(collected.years)}
    IN  IF collected.raised THEN collected
        ELSE IF \E y \in results : IntRaises(y) THEN [raised |-> TRUE, years |-> <<>>]
        ELSE [raised |-> FALSE, years |-> SortedByInt(results)]

RECURSIVE Join(_, _)
\* sep.join(strs)
Join(strs, sep) ==
    IF strs = <<>> THEN <<>>
    ELSE IF Len(strs) = 1 THEN strs[1]
    ELSE strs[1] \o sep \o Join(Tail(strs), sep)

\* the year texts a compatibility row is written with, and one that is no year
YearTexts == {<<"1", "4">>, <<"1", "7">>, <<"0", "9">>,
              <<"2", "0", "0", "5">>, <<"1", "9", "9", "9">>, <<"x">>}

\* a token of a year specification: a year, or a range of two
Single(a) == [kind |-> "single", a |-> a, b |-> <<>>]
Range(a, b) == [kind |-> "range", a |-> a, b |-> b]
Tokens == {Single(a) : a \in YearTexts} \cup {Range(a, b) : a \in YearTexts, b \in YearTexts}

TokenText(t) == IF t.kind = "single" THEN t.a ELSE t.a \o <<"-">> \o t.b

\* the `years` field as somebody typed it: the tokens with `sep` between them
Render(tokens, sep) == Join([k \in 1..Len(tokens) |-> TokenText(tokens[k])], sep)

\* a compatibility row with some year specification, not looked at yet
InitYears ==
    /\ enable_sync = [s \in Servers |-> TRUE]
    /\ item_field_map = <<>>
    /\ schema = {"top"}
    /\ bundles = [i \in ItemCodes |-> NoBundle]
    /\ items = [i \in ItemCodes |-> InitItem(i, <<"S1">>)]
    /\ wc = {}
    /\ nextId = [s \in Servers |-> 1]
    /\ now = 0
    /\ calls = 0
    /\ run = [w \in Workers |-> InitRun]
    /\ upd = NoUpd
    /\ cust = NoCust
    /\ \E n \in 0..MaxTokens : \E tokens \in [1..n -> Tokens] :
          \E sep \in {<<",">>, <<",", " ">>} :
             compat = [NoCompat EXCEPT !.pc = "row", !.tokens = tokens,
                                       !.years = Render(tokens, sep)]

\* build_compatibility_data, one row: `if row.years:` and the call of expand_years
ExpandYears ==
    /\ compat.pc = "row"
    /\ compat' = IF compat.years = <<>>
                 THEN [compat EXCEPT !.pc = "done", !.expanded_years = <<>>]
                 ELSE [compat EXCEPT !.pc = "expanded",
                                     !.result = expand_years(compat.years)]
    /\ UNCHANGED <<enable_sync, item_field_map, schema, bundles, items, wc, nextId, now,
                   calls, run, upd, cust>>

\* build_compatibility_data, one row: the years joined with commas, or the
\* exception logged and the years left empty
JoinYears ==
    /\ compat.pc = "expanded"
    /\ compat' = [compat EXCEPT !.pc = "done",
                      !.expanded_years = IF compat.result.raised THEN <<>>
                                         ELSE Join(compat.result.years, <<",">>)]
    /\ UNCHANGED <<enable_sync, item_field_map, schema, bundles, items, wc, nextId, now,
                   calls, run, upd, cust>>

NextYears == ExpandYears \/ JoinYears

SpecYears == InitYears /\ [][NextYears]_vars

\* ------------------------------------- derived sections of a product update
\* the stores no step of a derived section writes, as one Item left them
Quiet ==
    /\ enable_sync = [s \in Servers |-> TRUE]
    /\ item_field_map = <<>>
    /\ schema = {"top"}
    /\ wc = {}
    /\ nextId = [s \in Servers |-> 1]
    /\ now = 0
    /\ calls = 0
    /\ run = [w \in Workers |-> InitRun]
    /\ compat = NoCompat
quiet == <<enable_sync, item_field_map, schema, bundles, items, wc, nextId, now, calls, run,
           compat>>

\* push_wc_product(product_id, meta=..., **fields): the payload it PUTs (the
\* fields as given, the meta dict as key/value pairs with str(value)); the PUT
\* is answered with 200/201, or it is not and {} is returned
Payload(meta, fields) == [meta_data |-> meta, fields |-> fields]
Pushed(kind, payload, answered) == [kind |-> kind, payload |-> payload, answered |-> answered]

\* ------------------------------------------------------------ stock of an Item
MaxBins == 3
WarehouseNames == {"Main Warehouse - ame", "Branch B - ame"}
\* Bin.actual_qty, a Float, counted in halves: -0.5, 0, 0.5, 1, 1.5
HalfQtys == -1..3
\* the rows frappe.get_all("Bin", {"item_code": ...}) can return
Bins == [warehouse : WarehouseNames, actual_qty : HalfQtys]

\* int(x) of a Float counted in halves: towards zero
IntOfHalves(h) == IF h >= 0 THEN h \div 2 ELSE -((-h) \div 2)

\* warehouse.lower().replace("warehouse", "").replace(" - ame", "").strip()
\*          .replace(" ", "-") + "-branch"
branch_name(warehouse) ==
    CASE warehouse = "Main Warehouse - ame" -> "main-branch"
      [] warehouse = "Branch B - ame" -> "branch-b-branch"

\* branch_entries = [b for b in bins if b.actual_qty >= 0]
branch_entries_from_zero(bins) == SelectSeq(bins, LAMBDA b : b.actual_qty >= 0)

\* branch_entries = [b for b in bins if b.actual_qty > 0]
branch_entries(bins) == SelectSeq(bins, LAMBDA b : b.actual_qty > 0)

\* the meta_data dict of the branch stock section, values as push_wc_product
\* sends them (str(v)); its keys are branch_stock_<index>_branch,
\* branch_stock_<index>_stock_qty and branch_stock
BranchKeys(n) ==
    {<<"branch_stock", i, part>> : i \in 0..(n - 1), part \in {"branch", "stock_qty"}}
    \cup {<<"branch_stock">>}
BranchMeta(bins) ==
    LET entries == branch_entries(bins) IN
    [key \in BranchKeys(Len(entries)) |->
        IF Len(key) = 1 THEN StrOf(Len(entries))
        ELSE IF key[3] = "branch" THEN branch_name(entries[key[2] + 1].warehouse)
        ELSE StrOf(IntOfHalves(entries[key[2] + 1].actual_qty))]

RECURSIVE SumQty(_)
\* sum([b.actual_qty for b in bins])
SumQty(bins) == IF bins = <<>> THEN 0 ELSE Head(bins).actual_qty + SumQty(Tail(bins))

\* a status taken from the bins one by one instead of from their sum
StockFieldsAnyBin(bins) ==
    LET total_qty == SumQty(bins)
        instock == \E k \in 1..Len(bins) : bins[k].actual_qty > 0
    IN  [manage_stock |-> TRUE,
         stock_quantity |-> IntOfHalves(total_qty),
         stock_status |-> IF instock THEN "instock" ELSE "onbackorder",
         backorders |-> IF instock THEN "no" ELSE "notify"]

\* the fields of the stock push: manage_stock, stock_quantity, stock_status, backorders
StockFields(bins) ==
    LET total_qty == SumQty(bins)
        instock == total_qty > 0
    IN  [manage_stock |-> TRUE,
         stock_quantity |-> IntOfHalves(total_qty),
         stock_status |-> IF instock THEN "instock" ELSE "onbackorder",
         backorders |-> IF instock THEN "no" ELSE "notify"]

\* an Item with some bins, update_woocommerce_product about to sync its stock
InitStock ==
    /\ Quiet
    /\ bundles = [i \in ItemCodes |-> NoBundle]
    /\ items = [i \in ItemCodes |-> InitItem(i, <<"S1">>)]
    /\ cust = NoCust
    /\ \E n \in 0..MaxBins : \E bins \in [1..n -> Bins] :
          upd = [pc |-> "branch_stock", bins |-> bins, pushes |-> <<>>]

\* "Sync Branch-wise Stock": meta_data always has the key branch_stock, so the
\* push is always made
BranchStock ==
    /\ upd.pc = "branch_stock"
    /\ \E answered \in BOOLEAN :
          upd' = [upd EXCEPT !.pc = "stock",
                     !.pushes = Append(upd.pushes,
                                   Pushed("branch_stock", Payload(BranchMeta(upd.bins), <<>>),
                                          answered))]
    /\ UNCHANGED <<quiet, cust>>

\* "Sync Product Quantity / Stock"
Stock ==
    /\ upd.pc = "stock"
    /\ \E answered \in BOOLEAN :
          upd' = [upd EXCEPT !.pc = "done",
                     !.pushes = Append(upd.pushes,
                                   Pushed("stock", Payload(<<>>, StockFields(upd.bins)),
                                          answered))]
    /\ UNCHANGED <<quiet, cust>>

NextStock == BranchStock \/ Stock

SpecStock == InitStock /\ [][NextStock]_vars

\* ------------------------------------------------- compatibility of an Item
MaxRows == 2
\* the Translation table: source_text -> translated_text
translate_text(text) == IF text = "ar Toyota" THEN "Toyota" ELSE text

\* rows of the custom_compatibility child table
RowA == [brand |-> "ar Toyota", model |-> "Camry", years |-> <<"1", "4", "-", "1", "7">>,
         fuel |-> "", engine_size |-> "2.0"]
RowB == [brand |-> "Honda", model |-> "", years |-> <<"x">>, fuel |-> "Diesel",
         engine_size |-> ""]
CompatRows == {RowA, RowB}

RECURSIVE ChildCompat(_, _, _)
\* the loop over bundle.items from child k on: each child's rows appended
ChildCompat(children, k, cc) ==
    IF k > Len(children) THEN <<>>
    ELSE cc[children[k].item_code] \o ChildCompat(children, k + 1, cc)

\* a selection that adds the children's rows to a bundle's own rows
compatibility_entries_with_children(item_code, cc) ==
    IF is_bundle(item_code)
    THEN cc[item_code] \o ChildCompat(bundles[item_code].items, 1, cc)
    ELSE cc[item_code]

\* build_compatibility_data: the rows it takes, `cc` being custom_compatibility
\* of every Item
compatibility_entries(item_code, cc) ==
    IF is_bundle(item_code)
    THEN IF cc[item_code] = <<>>
         THEN ChildCompat(bundles[item_code].items, 1, cc)
         ELSE cc[item_code]
    ELSE cc[item_code]

CompatParts == {"brand", "model", "years", "variant", "engine_size"}

\* the years of a row as build_compatibility_data writes them
ExpandedYears(row) ==
    IF row.years = <<>> \/ expand_years(row.years).raised THEN <<>>
    ELSE Join(expand_years(row.years).years, <<",">>)

\* build_compatibility_data(item_code): (meta_data, count)
build_compatibility_data(item_code, cc) ==
    LET entries == compatibility_entries(item_code, cc) IN
    [count |-> Len(entries),
     meta_data |->
        [key \in {<<"add_compactable_details", i, part>> :
                     i \in 0..(Len(entries) - 1), part \in CompatParts} |->
            LET row == entries[key[2] + 1] IN
            CASE key[3] = "brand" -> translate_text(row.brand)
              [] key[3] = "model" -> translate_text(row.model)
              [] key[3] = "years" -> ExpandedYears(row)
              [] key[3] = "variant" -> row.fuel
              [] key[3] = "engine_size" -> row.engine_size]]

\* the meta_data with the two count keys added
WithCount(meta_data, count) ==
    [key \in DOMAIN meta_data \cup {<<"add_compactable_details">>, <<"_add_compactable_details">>} |->
        IF key = <<"add_compactable_details">> THEN StrOf(count)
        ELSE IF key = <<"_add_compactable_details">> THEN "field_68e38a56a4d82"
        ELSE meta_data[key]]

\* the Item being updated is I1, or B1 as a bundle of I1 and I2 or as a plain
\* Item; each Item has up to MaxRows compatibility rows
InitCompat ==
    /\ Quiet
    /\ \E b \in {NoBundle, TheBundle} :
          bundles = [i \in ItemCodes |-> IF i = "B1" THEN b ELSE NoBundle]
    /\ items = [i \in ItemCodes |-> InitItem(i, <<"S1">>)]
    /\ cust = NoCust
    /\ \E code \in {"I1", "B1"} :
          \E cc \in [ItemCodes -> UNION {[1..n -> CompatRows] : n \in 0..MaxRows}] :
             upd = [pc |-> "mark_spare_part", item_code |-> code, custom_compatibility |-> cc,
                    built |-> [count |-> 0, meta_data |-> <<>>], pushes |-> <<>>]

\* "push is spare parts or not": from the Item's own rows
MarkSparePart ==
    /\ upd.pc = "mark_spare_part"
    /\ \E answered \in BOOLEAN :
          LET is_spare_part == upd.custom_compatibility[upd.item_code] # <<>>
              meta == [key \in {<<"mark_spare_part">>} |->
                          IF is_spare_part THEN "1" ELSE "0"]
          IN  upd' = [upd EXCEPT !.pc = "compatibility",
                         !.pushes = Append(upd.pushes,
                                       Pushed("mark_spare_part", Payload(meta, <<>>), answered))]
    /\ UNCHANGED <<quiet, cust>>

\* a compatibility section that pushes whatever the count is
CompatibilityAlways ==
    /\ upd.pc = "compatibility"
    /\ LET built == build_compatibility_data(upd.item_code, upd.custom_compatibility) IN
          \E answered \in BOOLEAN :
             upd' = [upd EXCEPT !.pc = "done", !.built = built,
                        !.pushes = Append(upd.pushes,
                                      Pushed("compatibility",
                                             Payload(WithCount(built.meta_data, built.count),
                                                     <<>>),
                                             answered))]
    /\ UNCHANGED <<quiet, cust>>

\* "Build compatibility data dynamically": pushed only when count > 0
Compatibility ==
    /\ upd.pc = "compatibility"
    /\ LET built == build_compatibility_data(upd.item_code, upd.custom_compatibility) IN
          IF built.count > 0
          THEN \E answered \in BOOLEAN :
                  upd' = [upd EXCEPT !.pc = "done", !.built = built,
                             !.pushes = Append(upd.pushes,
                                           Pushed("compatibility",
                                                  Payload(WithCount(built.meta_data, built.count),
                                                          <<>>),
                                                  answered))]
          ELSE upd' = [upd EXCEPT !.pc = "done", !.built = built]
    /\ UNCHANGED <<quiet, cust>>

NextCompat == MarkSparePart \/ Compatibility

SpecCompat == InitCompat /\ [][NextCompat]_vars

\* ------------------------------- repeated updates of one product's meta data
\* the most updates of the product
MaxPasses == 2
\* the most bins of the Item in one update
MaxEntries == 2
\* the bins of one update: quantities 0, 1 and 1.5
RepeatBins == {b \in Bins : b.actual_qty \in {0, 2, 3}}
RepeatInputs ==
    {[bins |-> bins, rows |-> rows] :
        bins \in UNION {[1..n -> RepeatBins] : n \in 0..MaxEntries},
        rows \in UNION {[1..n -> CompatRows] : n \in 0..MaxRows}}

\* the product's meta data on the remote after a PUT with "meta_data":
\* [{"key": k, "value": str(v)}, ...] that was answered: the keys sent take the
\* values sent, every other key stays as it was
MetaAfterPut(remote, meta) ==
    [key \in DOMAIN remote \cup DOMAIN meta |->
        IF key \in DOMAIN meta THEN meta[key] ELSE remote[key]]

\* the Item I1 with its bins and compatibility rows, no update made yet;
\* `answered` says that every PUT so far was answered
InitRepeat ==
    /\ Quiet
    /\ bundles = [i \in ItemCodes |-> NoBundle]
    /\ items = [i \in ItemCodes |-> InitItem(i, <<"S1">>)]
    /\ cust = NoCust
    /\ \E in \in RepeatInputs :
          upd = [pc |-> "branch_stock", bins |-> in.bins, rows |-> in.rows,
                 remote |-> <<>>, answered |-> TRUE, passes |-> 1]

\* "Sync Branch-wise Stock" of one update
RepeatBranchStock ==
    /\ upd.pc = "branch_stock"
    /\ \E answered \in BOOLEAN :
          upd' = [upd EXCEPT !.pc = "compatibility",
                     !.answered = upd.answered /\ answered,
                     !.remote = IF answered THEN MetaAfterPut(upd.remote, BranchMeta(upd.bins))
                                ELSE upd.remote]
    /\ UNCHANGED <<quiet, cust>>

\* "Build compatibility data dynamically" of one update: a push only when count > 0
RepeatCompatibility ==
    /\ upd.pc = "compatibility"
    /\ LET cc == [i \in ItemCodes |-> IF i = "I1" THEN upd.rows ELSE <<>>]
           built == build_compatibility_data("I1", cc)
       IN  IF built.count > 0
           THEN \E answered \in BOOLEAN :
                   upd' = [upd EXCEPT !.pc = "done",
                              !.answered = upd.answered /\ answered,
                              !.remote = IF answered
                                         THEN MetaAfterPut(upd.remote,
                                                           WithCount(built.meta_data, built.count))
                                         ELSE upd.remote]
           ELSE upd' = [upd EXCEPT !.pc = "done"]
    /\ UNCHANGED <<quiet, cust>>

\* the bins and rows of the Item change and the product is updated again
UpdateAgain ==
    /\ upd.pc = "done"
    /\ upd.passes < MaxPasses
    /\ \E in \in RepeatInputs :
          upd' = [upd EXCEPT !.pc = "branch_stock", !.bins = in.bins, !.rows = in.rows,
                     !.passes = upd.passes + 1]
    /\ UNCHANGED <<quiet, cust>>

NextRepeat == RepeatBranchStock \/ RepeatCompatibility \/ UpdateAgain

SpecRepeat == InitRepeat /\ [][NextRepeat]_vars

\* ------------------------------------ an Item with rows for several servers
\* the woocommerce_servers rows of the Item I1, each with a product on its server
LinkedServers == {<<"S1">>, <<"S2">>, <<"S1", "S2">>, <<"S2", "S1">>}

\* what one SynchroniseItem of the loop did: the server of its row, the servers
\* whose enable_sync it read, the servers it sent a PUT or a category call to
NoRec == [link |-> "", flags |-> {}, writes |-> {}]

\* SynchroniseItem.__init__: self.wcapi is built for the first server with
\* enable_sync set, None when there is none
WcapiServer ==
    IF \E s \in Servers : enable_sync[s] THEN PushServer ELSE ""

\* run_item_sync(item_code="I1") has passed its validation
InitLinks ==
    /\ enable_sync \in [Servers -> BOOLEAN]
    /\ item_field_map = <<>>
    /\ schema = {"top"}
    /\ bundles = [i \in ItemCodes |-> NoBundle]
    /\ \E servers \in LinkedServers :
          LET fresh == InitItem("I1", servers) IN
          items = [i \in ItemCodes |->
                      IF i = "I1"
                      THEN [fresh EXCEPT !.woocommerce_servers =
                               [k \in 1..Len(servers) |->
                                   [fresh.woocommerce_servers[k] EXCEPT !.woocommerce_id = k]]]
                      ELSE InitItem(i, <<>>)]
    /\ wc = {}
    /\ nextId = [s \in Servers |-> 1]
    /\ now = 0
    /\ calls = 0
    /\ run = [w \in Workers |-> InitRun]
    /\ compat = NoCompat
    /\ cust = NoCust
    /\ upd = [pc |-> "links_loop", idx |-> 1, push |-> 0, rec |-> NoRec, recs |-> <<>>]

\* for wc_server in item.woocommerce_servers: sync = SynchroniseItem(...); sync.run()
LinksLoop ==
    /\ upd.pc = "links_loop"
    /\ LET rows == items["I1"].woocommerce_servers IN
          IF upd.idx > Len(rows)
          THEN upd' = [upd EXCEPT !.pc = "links_done"]
          ELSE upd' = [upd EXCEPT !.pc = "links_resolve",
                          !.rec = [NoRec EXCEPT !.link = rows[upd.idx].woocommerce_server]]
    /\ UNCHANGED <<quiet, cust>>

\* get_corresponding_item_or_product: the row has an id, so the enable_sync of
\* the row's server is read; SyncDisabledError leaves run() and run_item_sync
LinksResolve ==
    /\ upd.pc = "links_resolve"
    /\ LET link == item_woocommerce_server(items["I1"], upd.idx)
           rec == [upd.rec EXCEPT !.flags = @ \cup {link.woocommerce_server}]
       IN  IF ~enable_sync[link.woocommerce_server]
           THEN upd' = [upd EXCEPT !.pc = "links_raised", !.rec = rec,
                           !.recs = Append(upd.recs, rec)]
           ELSE upd' = [upd EXCEPT !.pc = "links_update", !.rec = rec]
    /\ UNCHANGED <<quiet, cust>>

\* update_woocommerce_product: server = frappe.get_all("WooCommerce Server",
\* limit=1)[0]; if not server.enable_sync: return
LinksUpdate ==
    /\ upd.pc = "links_update"
    /\ LET server == ServerTable[1]
           rec == [upd.rec EXCEPT !.flags = @ \cup {server}]
       IN  IF ~enable_sync[server]
           THEN upd' = [upd EXCEPT !.pc = "links_loop", !.idx = upd.idx + 1, !.rec = NoRec,
                           !.recs = Append(upd.recs, rec)]
           ELSE upd' = [upd EXCEPT !.pc = "links_push", !.push = 1, !.rec = rec]
    /\ UNCHANGED <<quiet, cust>>

\* the pushes of update_woocommerce_product in order, each sent to the server
\* push_wc_product picks; the categories section first calls
\* get_or_create_wc_category, which uses self.wcapi
LinksPush ==
    /\ upd.pc = "links_push"
    /\ IF upd.push > Len(PushKinds)
       THEN upd' = [upd EXCEPT !.pc = "links_loop", !.idx = upd.idx + 1, !.push = 0,
                       !.rec = NoRec, !.recs = Append(upd.recs, upd.rec)]
       ELSE \E wanted \in BOOLEAN :
               /\ PushKinds[upd.push] \notin OptionalData => wanted
               /\ LET kind == PushKinds[upd.push]
                      targets == IF ~wanted THEN {}
                                 ELSE IF kind = "categories" THEN {WcapiServer, PushServer}
                                 ELSE {PushServer}
                  IN  upd' = [upd EXCEPT !.push = upd.push + 1,
                                 !.rec.writes = @ \cup targets]
    /\ UNCHANGED <<quiet, cust>>

NextLinks == LinksLoop \/ LinksResolve \/ LinksUpdate \/ LinksPush

SpecLinks == InitLinks /\ [][NextLinks]_vars

\* ------------------------------------------- saves of an Item and the hook
\* the most saves of the Item made outside the synchronisation
MaxUserSaves == 2

\* a row of Item.woocommerce_servers
HookRow(server, id, marker, enabled) ==
    [woocommerce_server |-> server, woocommerce_id |-> id,
     woocommerce_last_sync_hash |-> marker, enabled |-> enabled]
HookRows(server) ==
    {HookRow(server, id, marker, enabled) :
        id \in {NoId, 1}, marker \in {NoHash, 0}, enabled \in BOOLEAN}
\* the Item: I1, or B1 which is a Product Bundle; no row, a row for S1, or rows
\* for S1 and S2
HookItems ==
    [item_code : {"I1", "B1"}, custom_disable_sync : BOOLEAN, price : {0, 1},
     woocommerce_servers : {<<>>} \cup {<<a>> : a \in HookRows("S1")}
                              \cup {<<a, b>> : a \in HookRows("S1"), b \in HookRows("S2")}]

\* run_item_sync_from_hook(doc, method) for an Item document: whether it
\* enqueues clear_sync_hash_and_run_item_sync
run_item_sync_from_hook(doc, created_by_sync) ==
    ~created_by_sync /\ Len(doc.woocommerce_servers) > 0

\* what one job clear_sync_hash_and_run_item_sync did: the rows it found, the
\* rows after its clearing, whether it called run_item_sync, whether that was
\* skipped by the validation, the rows a SynchroniseItem ran for, and those it
\* made a remote call for
NoJob == [started |-> FALSE, rows0 |-> <<>>, cleared |-> <<>>, called |-> FALSE,
          skipped |-> FALSE, ran |-> {}, remote |-> {}]

InitHook ==
    /\ Quiet
    /\ bundles = [i \in ItemCodes |-> IF i = "B1" THEN TheBundle ELSE NoBundle]
    /\ items = [i \in ItemCodes |-> InitItem(i, <<"S1">>)]
    /\ cust = NoCust
    /\ \E item \in HookItems :
          upd = [pc |-> "idle", item |-> item, user_saves |-> 0, direct_calls |-> 0,
                 queue |-> 0, by_user |-> 0, by_engine |-> 0, idx |-> 0, job |-> NoJob]

\* run_item_sync(item_code=...) called directly, not through the hook
DirectCall ==
    /\ upd.pc = "idle"
    /\ upd.direct_calls < MaxCalls
    /\ upd' = [upd EXCEPT !.pc = "hook_validate", !.direct_calls = @ + 1,
                   !.job = [NoJob EXCEPT !.rows0 = upd.item.woocommerce_servers,
                                         !.cleared = upd.item.woocommerce_servers,
                                         !.called = TRUE]]
    /\ UNCHANGED <<quiet, cust>>

\* the Item is saved outside the synchronisation; the hook runs on the save
UserSave ==
    /\ upd.pc = "idle"
    /\ upd.user_saves < MaxUserSaves
    /\ LET enqueue == run_item_sync_from_hook(upd.item, FALSE) IN
          upd' = [upd EXCEPT !.user_saves = @ + 1,
                     !.queue = IF enqueue THEN @ + 1 ELSE @,
                     !.by_user = IF enqueue THEN @ + 1 ELSE @]
    /\ UNCHANGED <<quiet, cust>>

\* a worker takes a job clear_sync_hash_and_run_item_sync(item_code): the marker
\* of the rows with enabled = 1 is set to None, and run_item_sync(item_code,
\* enqueue=True) is called when there was such a row
HookJob ==
    /\ upd.pc = "idle"
    /\ upd.queue > 0
    /\ LET rows == upd.item.woocommerce_servers
           iwss == {k \in 1..Len(rows) : rows[k].enabled}
           cleared == ClearedHashes(upd.item)
       IN  upd' = [upd EXCEPT !.queue = @ - 1,
                      !.item = cleared,
                      !.pc = IF iwss # {} THEN "hook_validate" ELSE "idle",
                      !.job = [NoJob EXCEPT !.started = TRUE, !.rows0 = rows,
                                            !.cleared = cleared.woocommerce_servers,
                                            !.called = iwss # {}]]
    /\ UNCHANGED <<quiet, cust>>

\* run_item_sync(item_code=...): the validation before the loop over the rows;
\* frappe.throw when the Item has no row
HookValidate ==
    /\ upd.pc = "hook_validate"
    /\ IF upd.item.custom_disable_sync \/ upd.item.price <= 0
       THEN upd' = [upd EXCEPT !.pc = "idle", !.job.skipped = TRUE]
       ELSE IF Len(upd.item.woocommerce_servers) = 0
       THEN upd' = [upd EXCEPT !.pc = "idle"]
       ELSE upd' = [upd EXCEPT !.pc = "hook_row", !.idx = 1]
    /\ UNCHANGED <<quiet, cust>>

\* for wc_server in item.woocommerce_servers: a SynchroniseItem for the row. A
\* row with an id has its product found and updated; a row without gets a
\* product created
HookSyncRow ==
    /\ upd.pc = "hook_row"
    /\ LET rows == upd.item.woocommerce_servers IN
          IF upd.idx > Len(rows)
          THEN upd' = [upd EXCEPT !.pc = "idle", !.idx = 0]
          ELSE IF rows[upd.idx].woocommerce_id # NoId
          THEN upd' = [upd EXCEPT !.idx = @ + 1,
                          !.job.ran = @ \cup {upd.idx},
                          !.job.remote = @ \cup {upd.idx}]
          ELSE upd' = [upd EXCEPT !.pc = "hook_insert", !.job.ran = @ \cup {upd.idx}]
    /\ UNCHANGED <<quiet, cust>>

\* wc_product.insert() of create_woocommerce_product or create_bundle_product:
\* a failure of the first leaves run_item_sync as an exception, a failure of the
\* second is logged
HookInsert ==
    /\ upd.pc = "hook_insert"
    /\ \E inserted \in BOOLEAN :
          IF inserted
          THEN upd' = [upd EXCEPT !.pc = "hook_save", !.job.remote = @ \cup {upd.idx}]
          ELSE IF is_bundle(upd.item.item_code)
          THEN upd' = [upd EXCEPT !.pc = "hook_row", !.idx = @ + 1,
                          !.job.remote = @ \cup {upd.idx}]
          ELSE upd' = [upd EXCEPT !.pc = "idle", !.idx = 0,
                          !.job.remote = @ \cup {upd.idx}]
    /\ UNCHANGED <<quiet, cust>>

\* the id is put on the row and the Item is saved: with flags.created_by_sync
\* set in create_woocommerce_product, without it in create_bundle_product; the
\* hook runs on the save. Then update_woocommerce_product, and set_sync_hash at
\* the end of create_woocommerce_product only
HookSave ==
    /\ upd.pc = "hook_save"
    /\ LET bundle == is_bundle(upd.item.item_code)
           linked == WithId(upd.item, upd.idx, 1)
           enqueue == run_item_sync_from_hook(linked, ~bundle)
           after == IF bundle THEN linked ELSE set_sync_hash(linked, upd.idx, 0)
       IN  upd' = [upd EXCEPT !.pc = "hook_row", !.idx = @ + 1, !.item = after,
                      !.queue = IF enqueue THEN @ + 1 ELSE @,
                      !.by_engine = IF enqueue THEN @ + 1 ELSE @]
    /\ UNCHANGED <<quiet, cust>>

NextHook == UserSave \/ DirectCall \/ HookJob \/ HookValidate \/ HookSyncRow \/ HookInsert \/ HookSave

SpecHook == InitHook /\ [][NextHook]_vars

\* --------------------------------- sync_woocommerce_products_modified_since
\* the most polling passes, and the latest time of the clock
MaxPolls == 2
MaxClock == 3
\* a date field that is not set (None)
NoDate == 0
\* the most products the remote lists as modified in one pass
MaxModified == 2

\* what one pass did: the date_time_from it polled with, the run_item_sync
\* calls it made, how it ended and when
NoPass == [from |-> NoDate, triggered |-> 0, raised |-> FALSE, finished |-> NoDate]

\* wc_last_sync_date_items of the two single doctypes the function names:
\* "WooCommerce Integration Settings", which it reads, and "WooCommerce
\* Settings", which it writes
InitPoll ==
    /\ Quiet
    /\ bundles = [i \in ItemCodes |-> NoBundle]
    /\ items = [i \in ItemCodes |-> InitItem(i, <<"S1">>)]
    /\ cust = NoCust
    /\ \E date \in {NoDate, 1} :
          upd = [pc |-> "idle", clock |-> 1, polls |-> 0,
                 integration_settings |-> date, settings |-> NoDate,
                 date_time_from |-> NoDate, pass |-> NoPass, passes |-> <<>>]

\* time passes
PollTick ==
    /\ upd.clock < MaxClock
    /\ upd' = [upd EXCEPT !.clock = @ + 1]
    /\ UNCHANGED <<quiet, cust>>

\* sync_woocommerce_products_modified_since(date_time_from) up to the
\* validation: the default is read from WooCommerce Integration Settings
PollCall ==
    /\ upd.pc = "idle"
    /\ upd.polls < MaxPolls
    /\ \E arg \in {NoDate, 1} :
          LET date_time_from == IF arg = NoDate THEN upd.integration_settings ELSE arg IN
          IF date_time_from = NoDate
          THEN upd' = [upd EXCEPT !.polls = @ + 1,
                          !.pass = [NoPass EXCEPT !.raised = TRUE],
                          !.passes = Append(@, [NoPass EXCEPT !.raised = TRUE])]
          ELSE upd' = [upd EXCEPT !.polls = @ + 1, !.pc = "poll_list",
                          !.date_time_from = date_time_from,
                          !.pass = [NoPass EXCEPT !.from = date_time_from]]
    /\ UNCHANGED <<quiet, cust>>

\* get_list_of_wc_products(date_time_from=...) and run_item_sync(..., enqueue=True)
\* for each product, its exceptions passed over
PollList ==
    /\ upd.pc = "poll_list"
    /\ \E n \in 0..MaxModified :
          upd' = [upd EXCEPT !.pc = "poll_finish", !.pass.triggered = n]
    /\ UNCHANGED <<quiet, cust>>

\* frappe.db.set_single_value("WooCommerce Settings", "wc_last_sync_date_items",
\* now()): the value is written to that doctype, or the call raises because
\* there is no such doctype
PollFinish ==
    /\ upd.pc = "poll_finish"
    /\ \E written \in BOOLEAN :
          LET pass == [upd.pass EXCEPT !.finished = upd.clock, !.raised = ~written] IN
          upd' = [upd EXCEPT !.pc = "idle",
                     !.settings = IF written THEN upd.clock ELSE @,
                     !.pass = pass, !.passes = Append(@, pass)]
    /\ UNCHANGED <<quiet, cust>>

NextPoll == PollTick \/ PollCall \/ PollList \/ PollFinish

SpecPoll == InitPoll /\ [][NextPoll]_vars

\* --------------------------------------------------- get_list_of_wc_products
\* the most products of the remote that match the filters
MaxCatalog == 250
wc_records_per_page_limit == 100
page_length == wc_records_per_page_limit

\* WooCommerce Product.get_list(args): the documents of the products matching
\* args["filters"] on args["servers"], numbered 1..matching here, from offset
\* args["start"] on and at most a page of them
GetListPage(matching, start) ==
    LET rest == IF matching > start THEN matching - start ELSE 0
        n == IF rest < wc_records_per_page_limit THEN rest ELSE wc_records_per_page_limit
    IN  [k \in 1..n |-> start + k]

\* a loop that also stops after a page that is exactly full
LastPageOrFull(new_results) == Len(new_results) <= page_length

\* if len(new_results) < page_length: new_results = []
LastPage(new_results) == Len(new_results) < page_length

\* get_list_of_wc_products(item, date_time_from) is called with neither, with a
\* date or with an Item; `matching` products match the filters it builds
InitPages ==
    /\ Quiet
    /\ bundles = [i \in ItemCodes |-> NoBundle]
    /\ items = [i \in ItemCodes |-> InitItem(i, <<"S1">>)]
    /\ cust = NoCust
    /\ \E args \in {"none", "date_time_from", "item"}, matching \in 0..MaxCatalog :
          /\ (args = "none" => matching = 0)
          /\ (args = "item" => matching <= 1)
          /\ upd = [pc |-> "call", args |-> args, matching |-> matching, start |-> 0,
                    requests |-> <<>>, wc_products |-> <<>>]

\* if not any([date_time_from, item]): raise ValueError
PagesCall ==
    /\ upd.pc = "call"
    /\ upd' = [upd EXCEPT !.pc = IF upd.args = "none" THEN "raised" ELSE "loop"]
    /\ UNCHANGED <<quiet, cust>>

\* one round of `while new_results`: the page at `start` is asked for and
\* appended, start goes up by page_length, and a page shorter than page_length
\* ends the loop
PagesGet ==
    /\ upd.pc = "loop"
    /\ LET new_results == GetListPage(upd.matching, upd.start) IN
          upd' = [upd EXCEPT !.requests = Append(@, upd.start),
                     !.wc_products = @ \o new_results,
                     !.start = @ + page_length,
                     !.pc = IF LastPage(new_results) THEN "returned" ELSE "loop"]
    /\ UNCHANGED <<quiet, cust>>

NextPages == PagesCall \/ PagesGet

\* the function runs on once called
SpecPages == InitPages /\ [][NextPages]_vars /\ WF_vars(NextPages)

\* ---------------------------------------------------- categories of an Item
\* the most product categories the remote holds
MaxCats == 3
\* Item.category / Item.sub_category after strip(); "" when not set
CategoryNames == {"", "Filters", "filters", "Oil"}
\* str.lower()
Lower(name) == IF name = "Filters" THEN "filters" ELSE IF name = "Oil" THEN "oil" ELSE name

\* a product category on the remote
Category(id, name, parent) == [id |-> id, name |-> name, parent |-> parent]

\* the loop over `existing`: the id of the first category whose name is `name`
\* whatever the case, NoId when there is none
FirstMatch(existing, name) ==
    LET hits == {k \in 1..Len(existing) : Lower(existing[k].name) = Lower(name)} IN
    IF hits = {} THEN NoId
    ELSE existing[CHOOSE k \in hits : \A j \in hits : k <= j].id

\* get_or_create_wc_category returned `id` (None is NoId) to update_woocommerce_product,
\* which appends {"id": id} and, after the main category, goes on to the
\* sub-category when the Item has one
CategoryReturned(u, id) ==
    LET got == [u EXCEPT !.ids = Append(u.ids, id),
                         !.categories = Append(u.categories, id)]
    IN  IF u.call = 1 /\ u.sub_cat # ""
        THEN [got EXCEPT !.pc = "cat_get", !.call = 2, !.name = u.sub_cat, !.parent_id = id]
        ELSE [got EXCEPT !.pc = "cat_push"]

\* an Item with a category and a sub-category, a remote with some categories,
\* and a SynchroniseItem with or without wcapi (no server has enable_sync)
InitCategory ==
    /\ Quiet
    /\ bundles = [i \in ItemCodes |-> NoBundle]
    /\ items = [i \in ItemCodes |-> InitItem(i, <<"S1">>)]
    /\ cust = NoCust
    /\ \E main_cat \in CategoryNames, sub_cat \in CategoryNames, wcapi \in BOOLEAN :
          \E cats \in {<<>>, <<Category(1, "Filters", 0)>>, <<Category(1, "Oil", 0)>>} :
             upd = [pc |-> "categories", main_cat |-> main_cat, sub_cat |-> sub_cat,
                    wcapi |-> wcapi, cats |-> cats, call |-> 0, name |-> "",
                    parent_id |-> NoId, ids |-> <<>>, creates |-> <<>>,
                    categories |-> <<>>, pushes |-> <<>>]

\* "Push product categories": the main category is resolved when there is one
Categories ==
    /\ upd.pc = "categories"
    /\ upd' = IF upd.main_cat = "" THEN [upd EXCEPT !.pc = "cat_push"]
               ELSE [upd EXCEPT !.pc = "cat_get", !.call = 1, !.name = upd.main_cat,
                                !.parent_id = NoId]
    /\ UNCHANGED <<quiet, cust>>

\* get_or_create_wc_category, the search: self.wcapi is None or the GET fails
\* (the exception is logged, None returned), or the remote's categories are
\* listed and looked through
CategoryGet ==
    /\ upd.pc = "cat_get"
    /\ \/ upd' = CategoryReturned(upd, NoId)
       \/ /\ upd.wcapi
          /\ upd' = IF FirstMatch(upd.cats, upd.name) # NoId
                     THEN CategoryReturned(upd, FirstMatch(upd.cats, upd.name))
                     ELSE [upd EXCEPT !.pc = "cat_post"]
    /\ UNCHANGED <<quiet, cust>>

\* get_or_create_wc_category, the create call: the remote creates the category
\* and answers with its id; or it creates it and the answer is lost; or it
\* does not create it (an error answer without "id", or the POST fails)
CategoryPost ==
    /\ upd.pc = "cat_post"
    /\ LET posted == [upd EXCEPT !.creates = Append(upd.creates, upd.name)]
           id == Len(upd.cats) + 1
           created == [posted EXCEPT !.cats = Append(upd.cats,
                                                 Category(id, upd.name, upd.parent_id))]
       IN  \/ /\ Len(upd.cats) < MaxCats
              /\ upd' \in {CategoryReturned(created, id), CategoryReturned(created, NoId)}
           \/ upd' = CategoryReturned(posted, NoId)
    /\ UNCHANGED <<quiet, cust>>

\* the categories without duplicates, pushed when there are any
CategoryPush ==
    /\ upd.pc = "cat_push"
    /\ LET categories == {upd.categories[k] : k \in 1..Len(upd.categories)} IN
          IF categories # {}
          THEN \E answered \in BOOLEAN :
                  upd' = [upd EXCEPT !.pc = "done",
                             !.pushes = Append(upd.pushes,
                                           Pushed("categories",
                                                  Payload(<<>>, [categories |-> categories]),
                                                  answered))]
          ELSE upd' = [upd EXCEPT !.pc = "done"]
    /\ UNCHANGED <<quiet, cust>>

NextCategory == Categories \/ CategoryGet \/ CategoryPost \/ CategoryPush

SpecCategory == InitCategory /\ [][NextCategory]_vars

\* ------------------------------------------------ bought together with an Item
\* the most Sales Invoice Item rows of other Items on the Item's invoices
MaxSold == 4
\* the Item being updated, and the Items sold on invoices with it
CurrentItem == "I1"
SoldCodes == {"A", "B", "C", "D"}
Catalog == SoldCodes \cup {CurrentItem}
\* the woocommerce_id an Item has on its Item WooCommerce Server row once it is linked
LinkId(code) ==
    CASE code = "A" -> 11 [] code = "B" -> 12 [] code = "C" -> 13 [] code = "D" -> 14
      [] OTHER -> 10

\* Counter(codes)[code]
CountOf(code, codes) == Cardinality({k \in 1..Len(codes) : codes[k] = code})
\* where the Counter met `code` first
FirstOf(code, codes) == CHOOSE k \in 1..Len(codes) :
                            codes[k] = code /\ \A j \in 1..(k - 1) : codes[j] # code

\* the `limit` first of `among` by falling count in `codes`, equal counts in the
\* order the codes were met first (Counter.most_common)
MostCommon(codes, among, limit) ==
    LET before(a, b) == \/ CountOf(a, codes) > CountOf(b, codes)
                        \/ /\ CountOf(a, codes) = CountOf(b, codes)
                           /\ FirstOf(a, codes) < FirstOf(b, codes)
        place(c) == 1 + Cardinality({d \in among : before(d, c)})
        n == IF Cardinality(among) < limit THEN Cardinality(among) ELSE limit
    IN  [k \in 1..n |-> CHOOSE c \in among : place(c) = k]

\* top_items = [code for code, _ in item_counts.most_common(3)]
top_items(codes) == MostCommon(codes, {codes[k] : k \in 1..Len(codes)}, 3)

\* the loop over top_items: str(wc_id) of those that have a woocommerce_id
TopWcIds(codes, linked) ==
    LET top == SelectSeq(top_items(codes), LAMBDA code : code \in linked) IN
    [k \in 1..Len(top) |-> StrOf(LinkId(top[k]))]

\* the Item has invoices or not, other Items were sold on them, and some Items
\* of the catalog are linked to a product
InitBought ==
    /\ Quiet
    /\ bundles = [i \in ItemCodes |-> NoBundle]
    /\ items = [i \in ItemCodes |-> InitItem(i, <<"S1">>)]
    /\ cust = NoCust
    /\ \E invoices \in BOOLEAN, linked \in SUBSET Catalog :
          \E n \in 0..MaxSold : \E sold \in [1..n -> SoldCodes] :
             /\ (~invoices => n = 0)
             /\ upd = [pc |-> "bought_together", invoices |-> invoices, sold |-> sold,
                       linked |-> linked, wc_ids |-> <<>>, pushes |-> <<>>]

\* "Sync Bought Together Items": the Items sold most often with this one
BoughtTogether ==
    /\ upd.pc = "bought_together"
    /\ LET wc_ids == IF upd.invoices THEN TopWcIds(upd.sold, upd.linked) ELSE <<>> IN
          IF wc_ids # <<>>
          THEN \E answered \in BOOLEAN :
                  upd' = [upd EXCEPT !.pc = "fallback", !.wc_ids = wc_ids,
                             !.pushes = Append(upd.pushes,
                                           Pushed("bought_together",
                                                  Payload(<<>>, [bundle_product_items |-> wc_ids]),
                                                  answered))]
          ELSE upd' = [upd EXCEPT !.pc = "fallback", !.wc_ids = wc_ids]
    /\ UNCHANGED <<quiet, cust>>

\* a fallback that is taken whether or not the first push was made
BoughtFallbackAlways ==
    /\ upd.pc = "fallback"
    /\ LET n == IF Cardinality(upd.linked) < 3 THEN Cardinality(upd.linked) ELSE 3 IN
          IF n > 0
          THEN \E random_items \in [1..n -> upd.linked], answered \in BOOLEAN :
                  /\ \A i, j \in 1..n : random_items[i] = random_items[j] => i = j
                  /\ LET wc_ids == [k \in 1..n |-> StrOf(LinkId(random_items[k]))] IN
                        upd' = [upd EXCEPT !.pc = "done", !.wc_ids = wc_ids,
                                   !.pushes = Append(upd.pushes,
                                       Pushed("bought_together",
                                              Payload(<<>>, [bundle_product_items |-> wc_ids]),
                                              answered))]
          ELSE upd' = [upd EXCEPT !.pc = "done"]
    /\ UNCHANGED <<quiet, cust>>

\* `if not invoices or not wc_ids`: up to three rows of Item WooCommerce Server
\* with a woocommerce_id, in the order RAND() gives
BoughtFallback ==
    /\ upd.pc = "fallback"
    /\ LET n == IF Cardinality(upd.linked) < 3 THEN Cardinality(upd.linked) ELSE 3 IN
          IF (~upd.invoices \/ upd.wc_ids = <<>>) /\ n > 0
          THEN \E random_items \in [1..n -> upd.linked], answered \in BOOLEAN :
                  /\ \A i, j \in 1..n : random_items[i] = random_items[j] => i = j
                  /\ LET wc_ids == [k \in 1..n |-> StrOf(LinkId(random_items[k]))] IN
                        upd' = [upd EXCEPT !.pc = "done", !.wc_ids = wc_ids,
                                   !.pushes = Append(upd.pushes,
                                       Pushed("bought_together",
                                              Payload(<<>>, [bundle_product_items |-> wc_ids]),
                                              answered))]
          ELSE upd' = [upd EXCEPT !.pc = "done"]
    /\ UNCHANGED <<quiet, cust>>

NextBought == BoughtTogether \/ BoughtFallback

SpecBought == InitBought /\ [][NextBought]_vars

\* ------------------------------------------------------ WooCommerce customers
\* (woocommerce/doctype/woocommerce_customer/woocommerce_customer.py)
\* the most calls of run_customer_sync
MaxSyncs == 2

\* WooCommerce Server.woocommerce_server_url of the two servers; requests are
\* sent to url + "/wp-json/...", so a url carries its scheme
UrlA == <<"h", "t", "t", "p", "s", ":", "/", "/", "a">>
UrlB == <<"h", "t", "t", "p", ":", "/", "/", "b", ":", "8", "0">>
ServerUrls == {UrlA, UrlB}

\* a customer as the remote returns it
RemoteCustomer(id, email, first_name, last_name, address_1) ==
    [id |-> id, email |-> email, first_name |-> first_name, last_name |-> last_name,
     address_1 |-> address_1]
\* Ann (with a billing address), a customer without email, and one without a name
Ann == RemoteCustomer(1, "ann@x", "Ann", "Lee", "1 Main St")
Anonymous == RemoteCustomer(2, "", "Bo", "", "")
Nameless == RemoteCustomer(3, "n@x", "", "", "")
RemoteCustomers == {Ann, Anonymous, Nameless}

\* f"{first_name} {last_name}".strip()
FullName(first_name, last_name) ==
    IF first_name = "" THEN last_name
    ELSE IF last_name = "" THEN first_name
    ELSE IF first_name = "Ann" /\ last_name = "Lee" THEN "Ann Lee"
    ELSE "Bo"

\* f"{wcapi.url}:{c.get('id')}"
CustomerName(url, id) == url \o <<":">> \o StrOf(id)

\* name.rsplit(":", 1) of a name with a ":" in it
RSplitColon(name) ==
    LET k == CHOOSE i \in 1..Len(name) :
                 name[i] = ":" /\ \A j \in (i + 1)..Len(name) : name[j] # ":"
    IN  <<SubSeq(name, 1, k - 1), SubSeq(name, k + 1, Len(name))>>

\* wcapi.get(f"customers/{customer_id}").json() of the server with this url
\* when the request is answered: the customer, or an error body without email
FetchCustomer(remote, url, customer_id) ==
    LET hits == {c \in remote[url] : StrOf(c.id) = customer_id} IN
    IF hits = {} THEN RemoteCustomer(0, "", "", "", "") ELSE CHOOSE c \in hits : TRUE

\* the name of a Customer document: its customer_name, with a number behind
\* it when the name is taken; no name
DocName(customer_name, nr) == <<customer_name, nr>>
NoName == <<>>

\* frappe.db.exists("Customer", {"email_id": email}): the name of one, None when none
Existing(customers, email) ==
    IF \E c \in customers : c.email_id = email
    THEN (CHOOSE c \in customers : c.email_id = email).name
    ELSE NoName

NoCall == [pc |-> "idle", name |-> <<>>, url |-> <<>>, customer_id |-> <<>>,
           data |-> RemoteCustomer(0, "", "", "", ""), result |-> "", result_name |-> NoName,
           before |-> {}, inserted |-> NoName]

\* the two servers with some customers each, and a Customer table that is empty
\* or already has Ann
InitCustomer ==
    /\ Quiet
    /\ bundles = [i \in ItemCodes |-> NoBundle]
    /\ items = [i \in ItemCodes |-> InitItem(i, <<"S1">>)]
    /\ upd = NoUpd
    /\ \E remote \in [ServerUrls -> SUBSET RemoteCustomers] :
          \E customers \in {{}, {[name |-> DocName("Ann Lee", 0), email_id |-> "ann@x"]}} :
             cust = [pc |-> "idle", remote |-> remote, customers |-> customers,
                     addresses |-> {}, records |-> {}, loaded |-> {}, syncs |-> 0,
                     call |-> NoCall]

\* WoocommerceCustomer.get_list: the customers of every server whose request
\* is answered, each named url:id (start 0 and page length 20 hold them all);
\* the id a name was built from is kept next to the record
GetList ==
    /\ cust.call.pc = "idle"
    /\ \E answering \in SUBSET ServerUrls :
          cust' = [cust EXCEPT !.records =
                      UNION {{[name |-> CustomerName(url, c.id), woocommerce_server |-> url,
                               email |-> c.email, id |-> c.id] : c \in cust.remote[url]} :
                             url \in answering}]
    /\ UNCHANGED <<quiet, upd>>

\* WoocommerceCustomer.load_from_db for a listed record: the name split at its
\* last colon (unquote leaves a name without "%" as it is), the server taken
\* by its url and the customer fetched
LoadFromDb ==
    /\ cust.call.pc = "idle"
    /\ \E rec \in cust.records :
          LET parts == RSplitColon(rec.name) IN
          /\ parts[1] \in ServerUrls
          /\ cust' = [cust EXCEPT !.loaded =
                         {[name |-> rec.name, woocommerce_server |-> parts[1],
                           customer_id |-> parts[2],
                           email |-> FetchCustomer(cust.remote, parts[1], parts[2]).email]}]
    /\ UNCHANGED <<quiet, upd>>

\* somebody calls run_customer_sync with the name of a customer of some server
CallRunCustomerSync ==
    /\ cust.call.pc = "idle"
    /\ cust.syncs < MaxSyncs
    /\ \E url \in ServerUrls, c \in RemoteCustomers :
          cust' = [cust EXCEPT !.syncs = cust.syncs + 1,
                      !.call = [NoCall EXCEPT !.pc = "fetch", !.name = CustomerName(url, c.id)]]
    /\ UNCHANGED <<quiet, upd>>

\* a run_customer_sync that does not look for a Customer with the email
RcsFetchNoLookup ==
    /\ cust.call.pc = "fetch"
    /\ LET call == cust.call
           parts == RSplitColon(call.name)
           data == FetchCustomer(cust.remote, parts[1], parts[2])
           got == [call EXCEPT !.url = parts[1], !.customer_id = parts[2], !.data = data,
                               !.before = {c \in cust.customers : c.email_id = data.email}]
       IN  \/ cust' = [cust EXCEPT !.call = [call EXCEPT !.pc = "raised", !.url = parts[1],
                                                          !.customer_id = parts[2]]]
           \/ cust' = [cust EXCEPT !.call =
                          IF data.email = "" THEN [got EXCEPT !.pc = "raised"]
                          ELSE [got EXCEPT !.pc = "insert"]]
    /\ UNCHANGED <<quiet, upd>>

\* run_customer_sync up to the check for an existing Customer: the request
\* fails, or it is answered; without an email frappe.throw; a Customer with the
\* email makes it return
RcsFetch ==
    /\ cust.call.pc = "fetch"
    /\ LET call == cust.call
           parts == RSplitColon(call.name)
           data == FetchCustomer(cust.remote, parts[1], parts[2])
           got == [call EXCEPT !.url = parts[1], !.customer_id = parts[2], !.data = data,
                               !.before = {c \in cust.customers : c.email_id = data.email}]
       IN  \/ cust' = [cust EXCEPT !.call = [call EXCEPT !.pc = "raised", !.url = parts[1],
                                                          !.customer_id = parts[2]]]
           \/ cust' = [cust EXCEPT !.call =
                          IF data.email = "" THEN [got EXCEPT !.pc = "raised"]
                          ELSE IF Existing(cust.customers, data.email) # ""
                          THEN [got EXCEPT !.pc = "returned",
                                           !.result = "Customer already exists",
                                           !.result_name = Existing(cust.customers, data.email)]
                          ELSE [got EXCEPT !.pc = "insert"]]
    /\ UNCHANGED <<quiet, upd>>

\* the Customer document as inserted: named after the customer, or after the
\* email when the customer has no name
NewCustomer(customers, data) ==
    LET customer_name == IF FullName(data.first_name, data.last_name) # ""
                         THEN FullName(data.first_name, data.last_name) ELSE data.email
        taken == {c \in customers : c.name[1] = customer_name}
    IN  [name |-> DocName(customer_name, Cardinality(taken)), email_id |-> data.email]

\* customer.insert(ignore_permissions=True), or the exception it raises
RcsInsert ==
    /\ cust.call.pc = "insert"
    /\ LET call == cust.call
           customer == NewCustomer(cust.customers, call.data)
       IN  \/ cust' = [cust EXCEPT !.customers = cust.customers \cup {customer},
                                   !.call = [call EXCEPT !.pc = "address",
                                                         !.inserted = customer.name]]
           \/ cust' = [cust EXCEPT !.call = [call EXCEPT !.pc = "raised"]]
    /\ UNCHANGED <<quiet, upd>>

\* the billing Address when there is an address_1, frappe.db.commit() and the
\* return; an exception of the Address insert leaves the function before the
\* commit, and the Customer inserted stays or is rolled back with the request
RcsAddress ==
    /\ cust.call.pc = "address"
    /\ LET call == cust.call
           address == [address_title |-> call.inserted, email_id |-> call.data.email]
           done == [call EXCEPT !.pc = "returned", !.result = "Customer created successfully",
                                !.result_name = call.inserted]
       IN  IF call.data.address_1 # ""
           THEN \/ cust' = [cust EXCEPT !.addresses = cust.addresses \cup {address},
                                        !.call = done]
                \/ \E kept \in BOOLEAN :
                      cust' = [cust EXCEPT
                                 !.customers = IF kept THEN cust.customers
                                               ELSE {c \in cust.customers : c.name # call.inserted},
                                 !.call = [call EXCEPT !.pc = "raised"]]
           ELSE cust' = [cust EXCEPT !.call = done]
    /\ UNCHANGED <<quiet, upd>>

\* the caller has the result, or the exception
RcsEnd ==
    /\ cust.call.pc \in {"returned", "raised"}
    /\ cust' = [cust EXCEPT !.call = NoCall]
    /\ UNCHANGED <<quiet, upd>>

NextCustomer ==
    \/ GetList \/ LoadFromDb
    \/ CallRunCustomerSync \/ RcsFetch \/ RcsInsert \/ RcsAddress \/ RcsEnd

SpecCustomer == InitCustomer /\ [][NextCustomer]_vars

\* ------------------------------------------------------------ observers
\* the Item's server row as the database holds it
DbLink(r) == item_woocommerce_server(items[r.item.item_code], r.idx)

\* no call of the reconciliation failed: no create step, no step that makes
\* update_woocommerce_product raise, no field-group push
NoFailure(r) == ~r.obs.create_failed /\ ~r.obs.pipe_failed /\ ~r.obs.push_failed

\* a bundle can be created only when one of its children has a WooCommerce id
Creatable(r) ==
    is_bundle(r.item.item_code) => WoosbIds(bundles[r.item.item_code].items) # {}

\* a reconciliation that started from an Item (run_item_sync(item_code=...))
FromItem(r) == r.item # NoItem /\ r.wc_arg = NoDoc

\* ------------------------------------------------------------------ C1
\* C1: a reconciliation that starts from an Item whose server row has no
\* WooCommerce id, on a server with enable_sync on, and in which no call fails,
\* ends having created exactly one
\* product, with that product's id on the row and the row's marker equal to the
\* product's date_modified; for plain items and for bundles.
C1_CreateLinksAndMarks ==
    \A w \in Workers :
        LET r == run[w] IN
        (/\ r.pc = "run_done" /\ FromItem(r) /\ r.obs.id0 = NoId
         /\ ~r.obs.disabled /\ NoFailure(r) /\ Creatable(r))
        => /\ r.obs.inserts = 1
           /\ DbLink(r).woocommerce_id # NoId
           /\ DbLink(r).woocommerce_id = r.woocommerce_product.woocommerce_id
           /\ DbLink(r).woocommerce_last_sync_hash =
                  r.woocommerce_product.woocommerce_date_modified

\* ------------------------------------------------------------------ C2
\* C2: once a step of the push pipeline has failed in a reconciliation (the field
\* map, the product save or a field-group push), the reconciliation does not
\* write the marker: the row keeps the marker it had when the reconciliation
\* started.
C2_MarkerOnlyAfterCleanPipeline ==
    \A w \in Workers :
        LET r == run[w] IN
        (/\ r.pc \in {"create_return", "run_done", "run_failed"} /\ r.item # NoItem
         /\ (r.obs.pipe_failed \/ r.obs.push_failed))
        => /\ ~r.obs.hash_written
           /\ DbLink(r).woocommerce_last_sync_hash = r.obs.hash0

\* ------------------------------------------------------------------ C3
\* C3: one SynchroniseItem.run executes the push pipeline
\* (update_woocommerce_product, past its enable_sync check) at most once.
C3_UpdateAtMostOnce ==
    \A w \in Workers : run[w].obs.updates <= 1

\* ------------------------------------------------------------------ C4
\* the arguments of the run_item_sync call the worker is in, or came back from
Neither(r) == r.item_code = "" /\ r.wc_arg = NoDoc
Both(r) == r.item_code # "" /\ r.wc_arg # NoDoc
InputRejected(r) ==
    /\ r.pc \in {"run_item_sync", "idle"}
    /\ r.pc = "idle" => (r.result = "raised" /\ r.err = InputError)

C5_DisabledServerBlocks ==
    \A w \in Workers :
        LET r == run[w] IN
        (FromItem(r) /\ r.obs.disabled) =>
            /\ r.pc # "run_done"
            /\ r.pc = "run_failed" => r.err = "SyncDisabledError"
            /\ r.obs.create_calls = 0 /\ r.obs.saves = 0 /\ r.obs.pushed = <<>>
            /\ r.obs.item_saves = 0 /\ ~r.obs.hash_written

\* ------------------------------------------------------------------ C6
\* C6: a reconciliation in which the insert of the product or the save of its id
\* on the Item failed ends failed, and bulk_run_item_sync never appends such an
\* item to its success list.
C6_CreateFailureFails ==
    \A w \in Workers :
        LET r == run[w] IN
        /\ r.obs.create_failed => r.pc # "run_done"
        /\ r.bad \cap r.ok = {}

\* ------------------------------------------------------------------ C7
RECURSIVE IsMerge(_, _, _)
\* `batch` is `success` and `failed` interleaved, each in its own order
IsMerge(batch, success, failed) ==
    IF batch = <<>> THEN success = <<>> /\ failed = <<>>
    ELSE \/ /\ success # <<>> /\ Head(success) = Head(batch)
            /\ IsMerge(Tail(batch), Tail(success), failed)
         \/ /\ failed # <<>> /\ Head(failed).item_code = Head(batch)
            /\ IsMerge(Tail(batch), success, Tail(failed))

\* C7: bulk_run_item_sync takes the item codes in input order, each once: the
\* codes handled so far are exactly success and failed interleaved, a failure
\* is recorded with the text of its exception and does not stop the loop, and
\* when the message is returned every input code is in exactly one of the lists.
C7_BulkPartitionsInOrder ==
    \A w \in Workers :
        LET r == run[w] IN
        r.mode = "bulk" =>
            /\ r.bi \in 1..(Len(r.batch) + 1)
            /\ IsMerge(SubSeq(r.batch, 1, r.bi - 1), r.success, r.failed)
            /\ \A k \in 1..Len(r.failed) : r.failed[k].error # ""
            /\ (r.pc = "bulk_loop" /\ r.err # "") =>
                   /\ r.bi > 1 /\ Len(r.failed) > 0
                   /\ r.failed[Len(r.failed)] =
                          [item_code |-> r.batch[r.bi - 1], error |-> r.err]
            /\ r.pc \in {"run_item_sync", "run", "run_failed"} =>
                   r.item_code = r.batch[r.bi]
            /\ (r.pc = "idle" /\ r.result = "message") =>
                   /\ r.bi = Len(r.batch) + 1
                   /\ Len(r.success) + Len(r.failed) = Len(r.batch)

\* a batch of two came back with its first item failed and its second succeeded
C7_Witness ==
    \E w \in Workers :
        LET r == run[w] IN
        /\ r.mode = "bulk" /\ r.pc = "idle" /\ r.result = "message"
        /\ Len(r.batch) = 2
        /\ r.success = <<r.batch[2]>>
        /\ Len(r.failed) = 1 /\ r.failed[1].item_code = r.batch[1]

\* ------------------------------------------------------------------ C8
\* a stored product without the stamp of its last write
Unstamped(products) == {[p EXCEPT !.date_modified = 0] : p \in products}

\* C8: when a reconciliation of an Item's server row that ended without any
\* failure is followed, with no change in between, by another one that also
\* ends without failure, the second one saves no product, writes no mapped
\* field, creates nothing, and leaves the Item, the marker and the product
\* (its write stamp aside) as the first one left them; for plain items and for
\* bundles.
C8_SecondRunChangesNothing ==
    \A w \in Workers :
        LET r == run[w] IN
        (r.pc = "run_done" /\ r.again /\ NoFailure(r)) =>
            /\ r.obs.saves = 0 /\ r.obs.inserts = 0 /\ r.obs.dirty_updates = 0
            /\ items[r.item.item_code] = r.prev.item
            /\ Unstamped(Stored(DbLink(r).woocommerce_server, DbLink(r).woocommerce_id))
                   = Unstamped(r.prev.stored)

\* ------------------------------------------------------------------ C9
\* every configured pair has a match in the product, equal to the Item's value
AllEqual(doc, item) ==
    \A k \in 1..Len(item_field_map) :
        LET matches == Find(doc.tree, item_field_map[k].woocommerce_field_name) IN
        /\ Len(matches) > 0
        /\ matches[1] = item.fields[item_field_map[k].erpnext_field_name]

\* the product update_woocommerce_product hands to set_product_fields
Renamed(r) ==
    [r.woocommerce_product EXCEPT !.woocommerce_name =
        IF is_bundle(r.item.item_code) /\ bundles[r.item.item_code].description # ""
        THEN bundles[r.item.item_code].description
        ELSE clean_product_name(r.item.item_name)]

\* the pushes update_woocommerce_product makes whatever the Item carries
AlwaysPushed == {"sku", "description", "branch_stock", "stock", "price",
                 "mark_spare_part", "offer_category"}

C10_UnmappedAborts ==
    \A w \in Workers :
        LET r == run[w] IN
        (r.obs.unmapped /\ r.pc \in {"run_done", "run_failed"}) =>
            /\ r.pc = "run_failed" /\ r.err = FieldNotFound
            /\ ~r.obs.hash_written
            /\ DbLink(r).woocommerce_last_sync_hash = r.obs.hash0

\* ----------------------------------------------------------------- C11
\* the data of an Item that a product could overwrite: its name and the fields
\* the field map names
ItemData(item) == [item_name |-> item.item_name, fields |-> item.fields, has |-> item.has]

\* a reconciliation that was started from a product no Item row refers to
Orphan(r) ==
    /\ r.wc_arg # NoDoc
    /\ r.pc \in {"run", "sync", "run_done", "run_failed"}
    /\ LinkedRows(r.wc_arg.woocommerce_server, r.wc_arg.woocommerce_id) = {}

\* C11: no step creates an Item or changes an Item's name or mapped fields, and
\* a reconciliation started from a product that no Item refers to takes every
\* step without error and without changing any Item, any marker or any product.
C11_NoRemoteToLocal ==
    [][ /\ DOMAIN items' = DOMAIN items
        /\ \A c \in DOMAIN items : ItemData(items'[c]) = ItemData(items[c])
        /\ \A w \in Workers :
              Orphan(run[w]) =>
                  /\ items' = items /\ wc' = wc
                  /\ run'[w].pc # "run_failed" /\ run'[w].result # "raised" ]_vars

\* a reconciliation started from a product without an Item has come to its end
C11_Witness ==
    \E w \in Workers :
        /\ Orphan(run[w]) /\ run[w].pc = "run_done"
        /\ run[w].item = NoItem /\ run[w].woocommerce_product = run[w].wc_arg

\* ----------------------------------------------------------------- C12
\* a reconciliation in which the Item and the product both resolved
BothResolved(r) == r.caller \in {"C", "D"}

\* the field-group pushes attempted so far
PushedSet(r) == {r.obs.pushed[k] : k \in 1..Len(r.obs.pushed)}

\* C12: when the Item and the product both resolve,
\* sync_wc_product_with_erpnext_item goes on to update_woocommerce_product
\* whatever the two modification stamps are, and a reconciliation that ends
\* has run the push pipeline at least once (when the first server row has
\* enable_sync on) and made the unconditional pushes; no step of it writes the
\* Item.
C12_PushWhateverTheStamps ==
    [][ \A w \in Workers :
          LET r == run[w] IN
          /\ (r.pc = "sync" /\ r.item # NoItem /\ r.woocommerce_product # NoDoc) =>
                 (run'[w].pc = "update" /\ run'[w].caller = "C")
          /\ (BothResolved(r) /\ r.pc = "run_done" /\ enable_sync[ServerTable[1]]) =>
                 (r.obs.updates >= 1 /\ AlwaysPushed \subseteq PushedSet(r))
          /\ (BothResolved(r) /\ r.pc \notin {"idle", "bulk_loop", "run_item_sync"}) =>
                 items' = items ]_vars

\* a product modified after its Item went through the pipeline all the same
C12_Witness ==
    \E w \in Workers :
        LET r == run[w] IN
        /\ BothResolved(r) /\ r.pc = "run_done" /\ r.obs.saves = 0
        /\ r.woocommerce_product.woocommerce_date_modified > r.item.modified
        /\ r.obs.updates = 1 /\ AlwaysPushed \subseteq PushedSet(r)

\* ----------------------------------------------------------------- C13
\* C13: when the reconciliation that clear_sync_hash_and_run_item_sync started
\* for an Item whose server row has a WooCommerce id has ended without error
\* (sync enabled, the pipeline run and no call of it failed), the row's marker
\* is set: it is not left cleared.
C13_HookResyncRestoresMarker ==
    \A w \in Workers :
        LET r == run[w] IN
        (/\ r.mode = "hook" /\ r.pc = "run_done" /\ r.obs.id0 # NoId
         /\ r.obs.updates >= 1 /\ NoFailure(r)) =>
            DbLink(r).woocommerce_last_sync_hash # NoHash

\* ----------------------------------------------------------------- C14
\* two reconciliations in flight for the same server row of the same Item,
\* both started while the row had no WooCommerce id
SameLinkRace(r1, r2) ==
    /\ r1.item # NoItem /\ r2.item # NoItem
    /\ r1.item.item_code = r2.item.item_code /\ r1.idx = r2.idx
    /\ r1.obs.id0 = NoId /\ r2.obs.id0 = NoId

\* C14: however the steps of two reconciliations of the same Item and server
\* row, both started without a WooCommerce id on the row, interleave, together
\* they insert at most one product, and when both have ended the row carries
\* the id of that product.
C14_RaceCreatesOnce ==
    \A w1 \in DOMAIN run : \A w2 \in DOMAIN run \ {w1} :
        LET r1 == run[w1]
            r2 == run[w2]
        IN  SameLinkRace(r1, r2) =>
                /\ r1.obs.inserts + r2.obs.inserts <= 1
                /\ (r1.pc = "run_done" /\ r2.pc = "run_done" /\ r1.obs.inserts = 1) =>
                       DbLink(r1).woocommerce_id = r1.woocommerce_product.woocommerce_id

\* ----------------------------------------------------------------- C15
\* the pushes update_woocommerce_product makes for `item`, in order
WantedSeq(item) == SelectSeq(PushKinds, LAMBDA kind : Wanted(kind, item))

\* C15: in the sequence of field-group pushes of one product update, a push
\* that fails (the PUT raises, times out or is answered with another status
\* than 200/201) is followed by the next push of the sequence like one that
\* succeeds: every step the worker takes from a push goes to the next push or,
\* after the last one, returns from the update; it never raises. An update whose pushes are
\* done has attempted every push the Item has data for, in order, also when
\* one of them failed.
C15_PushFailuresIsolated ==
    [][ \A w \in Workers :
          LET r == run[w] IN
          (r.pc = "push" /\ run'[w] # r) =>
              /\ run'[w].pc # "run_failed"
              /\ r.push <= Len(PushKinds) =>
                     /\ run'[w].pc = "push" /\ run'[w].push = r.push + 1
                     /\ Wanted(PushKinds[r.push], r.item) =>
                            run'[w].obs.pushed = Append(r.obs.pushed, PushKinds[r.push])
              /\ (r.push > Len(PushKinds) /\ r.obs.updates = 1) =>
                     r.obs.pushed = WantedSeq(r.item) ]_vars

\* a reconciliation has ended in which every one of the thirteen pushes was
\* attempted although none of them succeeded: the product still carries an
\* older stamp than a successful push would have left
C15_Witness ==
    \E w \in Workers :
        LET r == run[w] IN
        /\ r.pc = "run_done" /\ BothResolved(r) /\ r.obs.push_failed
        /\ r.obs.updates = 1 /\ r.obs.saves = 0
        /\ r.obs.pushed = PushKinds
        /\ \A p \in Stored(PushServer, r.woocommerce_product.woocommerce_id) :
               p.date_modified < now

\* ----------------------------------------------------------------- C16
\* the bundle product a reconciliation has just had inserted
BundleCreated(r) == r.pc = "bundle_link_save"

\* the entries of `payload` for the child row at position k (counted from 1)
EntriesAt(payload, k) == {e \in payload : e.key = k - 1}

\* the payload has one entry per child row with a WooCommerce id, at the row's
\* position and with the child's id, and none for the other rows; `qty_ok`
\* says what the entry's quantity has to be for the row's quantity
PayloadMatches(r, qty_ok(_, _)) ==
    LET rows == bundles[r.item.item_code].items
        payload == r.wc_product.woosb_ids
    IN  /\ \A e \in payload : e.key \in 0..(Len(rows) - 1)
        /\ \A k \in 1..Len(rows) :
              IF ChildWcId(rows[k].item_code) # NoId
              THEN /\ Cardinality(EntriesAt(payload, k)) = 1
                   /\ \A e \in EntriesAt(payload, k) :
                         /\ e.id = ChildWcId(rows[k].item_code)
                         /\ qty_ok(e.qty, rows[k].qty)
              ELSE EntriesAt(payload, k) = {}

\* the reconciliation of a bundle Item never is on the single-product path, and
\* the product it has inserted is stored with type woosb and its payload
BundlePath(r) ==
    /\ (r.item # NoItem /\ is_bundle(r.item.item_code)) =>
           (r.pc \notin {"insert", "link_save", "set_sync_hash"} /\ r.caller # "create")
    /\ BundleCreated(r) =>
           /\ r.wc_product.type = "woosb"
           /\ \E p \in Stored(r.wc_product.woocommerce_server, r.wc_product.woocommerce_id) :
                  p.type = "woosb" /\ p.woosb_ids = r.wc_product.woosb_ids

\* the entry carries the row's quantity as it is, 1 when the row has none
QtyAsIs(entry_qty, qty) ==
    IF qty = NoQty THEN entry_qty = 1 ELSE Qty(entry_qty, FALSE) = qty

\* the entry carries the whole part of the row's quantity, 1 when the row has none
QtyTruncated(entry_qty, qty) ==
    IF qty = NoQty THEN entry_qty = 1 ELSE entry_qty = qty.whole

\* C16 (as stated): a bundle Item without a WooCommerce id is never created on
\* the single-product path; the product created for it has type woosb and its
\* payload has, for each child row with a WooCommerce id, one entry at the
\* row's position with the child's id and the row's quantity (1 when there is
\* none), and no entry for a child without an id.
C16_BundlePayload ==
    \A w \in Workers :
        /\ BundlePath(run[w])
        /\ BundleCreated(run[w]) => PayloadMatches(run[w], QtyAsIs)

\* C16 (amended): the same, the entry carrying the row's quantity cut to its
\* whole part (1 when the row has no quantity or a quantity of zero).
C16_BundlePayloadWholeQty ==
    \A w \in Workers :
        /\ BundlePath(run[w])
        /\ BundleCreated(run[w]) => PayloadMatches(run[w], QtyTruncated)

\* a bundle was created of which one child has a WooCommerce id and a
\* fractional quantity, and the other child has no id
C16_Witness ==
    \E w \in Workers :
        LET r == run[w]
            rows == bundles[r.item.item_code].items
        IN  /\ r.pc = "run_done" /\ r.item # NoItem /\ is_bundle(r.item.item_code)
            /\ r.obs.inserts = 1 /\ r.obs.id0 = NoId
            /\ \E k \in 1..Len(rows) : ChildWcId(rows[k].item_code) = NoId
            /\ \E k \in 1..Len(rows) :
                  /\ ChildWcId(rows[k].item_code) # NoId /\ rows[k].qty.frac
                  /\ \E e \in r.woocommerce_product.woosb_ids :
                        e.key = k - 1 /\ e.qty = rows[k].qty.whole

\* ----------------------------------------------------------------- C17
\* the values a marker can take: the stamps of the clock
Markers == 0..MaxTime

\* an Item apart from the marker and the `enabled` flag of its row idx
ApartFromMarker(item, idx) ==
    [item EXCEPT !.woocommerce_servers[idx].woocommerce_last_sync_hash = NoHash,
                 !.woocommerce_servers[idx].enabled = FALSE]

\* C17: set_sync_hash stores the marker it is given: written once or twice with
\* the same marker it leaves the same Item, written with one marker after
\* another it leaves the last one, and it changes nothing else of the Item:
\* not its modified stamp, not the WooCommerce id of the row, not another row;
\* the step of a reconciliation that records the marker leaves the row with the
\* product's date_modified and all other Items as they were.
C17_SetSyncHashIdempotent ==
    [][ \A w \in Workers :
          LET r == run[w]
              code == r.item.item_code
              item == items[code]
          IN  r.pc = "set_sync_hash" =>
                /\ \A m1 \in Markers, m2 \in Markers :
                      LET once == set_sync_hash(item, r.idx, m1) IN
                      /\ set_sync_hash(once, r.idx, m1) = once
                      /\ once.woocommerce_servers[r.idx].woocommerce_last_sync_hash = m1
                      /\ set_sync_hash(once, r.idx, m2)
                             .woocommerce_servers[r.idx].woocommerce_last_sync_hash = m2
                      /\ set_sync_hash(once, r.idx, m2) = set_sync_hash(item, r.idx, m2)
                      /\ once.modified = item.modified
                      /\ once.woocommerce_servers[r.idx].woocommerce_id =
                             item.woocommerce_servers[r.idx].woocommerce_id
                      /\ ApartFromMarker(once, r.idx) = ApartFromMarker(item, r.idx)
                /\ run'[w].pc = "create_return" =>
                      /\ items'[code].woocommerce_servers[r.idx].woocommerce_last_sync_hash =
                             r.woocommerce_product.woocommerce_date_modified
                      /\ ApartFromMarker(items'[code], r.idx) = ApartFromMarker(item, r.idx)
                      /\ \A c \in ItemCodes \ {code} : items'[c] = items[c] ]_vars

\* a reconciliation has recorded, on a row that already carried a marker, the
\* same marker again, at a time later than the Item's last modification
C17_Witness ==
    \E w \in Workers :
        LET r == run[w] IN
        /\ r.pc = "create_return" /\ r.obs.hash_written
        /\ r.obs.hash0 # NoHash
        /\ DbLink(r).woocommerce_last_sync_hash = r.obs.hash0
        /\ items[r.item.item_code].modified < now

\* ----------------------------------------------------------------- C18
\* a year as the specification means it: two or four digits
ValidYear(y) == Len(y) \in {2, 4} /\ \A k \in 1..Len(y) : IsDigit(y[k])
ValidToken(t) == ValidYear(t.a) /\ (t.kind = "range" => ValidYear(t.b))
AllValid(tokens) == \A k \in 1..Len(tokens) : ValidToken(tokens[k])

\* a year with the century 20 when it has two digits
Year20(y) == IF Len(y) = 2 THEN 2000 + IntOf(y) ELSE IntOf(y)

\* the end of a range: a 2-digit end after a 4-digit start has the start's century
YearEnd(a, b) ==
    IF Len(b) = 2 /\ Len(a) = 4 THEN (IntOf(a) \div 100) * 100 + IntOf(b) ELSE Year20(b)

\* the years the tokens cover, `last(a, b)` being the last year of a range a-b
Covered(tokens, last(_, _)) ==
    UNION {IF tokens[k].kind = "single" THEN {Year20(tokens[k].a)}
           ELSE Year20(tokens[k].a)..last(tokens[k].a, tokens[k].b) : k \in 1..Len(tokens)}

\* expand_years returned exactly the years of `covered`, as 4-digit strings in
\* ascending order, none twice
ReturnedExactly(result, covered) ==
    /\ ~result.raised
    /\ {IntOf(result.years[k]) : k \in 1..Len(result.years)} = covered
    /\ \A k \in 1..Len(result.years) : ValidYear(result.years[k]) /\ Len(result.years[k]) = 4
    /\ \A k \in 1..(Len(result.years) - 1) :
          IntOf(result.years[k]) < IntOf(result.years[k + 1])

\* expand_years has been applied to a specification of valid tokens only
ExpandedValid == compat.pc \in {"expanded", "done"} /\ compat.tokens # <<>>
                 /\ AllValid(compat.tokens)

End20(a, b) == Year20(b)

\* C18 (as stated): for a year specification of valid tokens only, expand_years
\* returns exactly the years its tokens cover (a range a-b every year from a
\* to b, a single token its year, 2-digit years taken in the century 20), as
\* 4-digit strings in ascending order without duplicates.
C18_ExpandYearsExact ==
    ExpandedValid => ReturnedExactly(compat.result, Covered(compat.tokens, End20))

\* C18 (amended): the same, except that the 2-digit end of a range whose start
\* has four digits is taken in the century of the start.
C18_ExpandYearsExactEndCentury ==
    ExpandedValid => ReturnedExactly(compat.result, Covered(compat.tokens, YearEnd))

\* the row "2005, 09" came out as "2005,2009"
C18_Witness ==
    /\ compat.pc = "done"
    /\ compat.years = <<"2", "0", "0", "5", ",", " ", "0", "9">>
    /\ compat.result.years = <<<<"2", "0", "0", "5">>, <<"2", "0", "0", "9">>>>
    /\ compat.expanded_years = <<"2", "0", "0", "5", ",", "2", "0", "0", "9">>

\* ----------------------------------------------------------------- C19
\* an endpoint of a range with the century of the other endpoint when that one
\* has four digits and this one two; the century 20 when neither has four
SiblingYear(y, other) ==
    IF Len(y) = 2
    THEN (IF Len(other) = 4 THEN IntOf(other) \div 100 ELSE 20) * 100 + IntOf(y)
    ELSE IntOf(y)

\* C19: for a specification that is one range of two valid years, expand_years
\* returns the years from its start to its end, a 2-digit endpoint being taken
\* in the century of the other endpoint when that has four digits, on whichever
\* side the 2-digit endpoint is, and in the century 20 when neither has four.
C19_CenturyFromSibling ==
    (/\ compat.pc \in {"expanded", "done"} /\ Len(compat.tokens) = 1
     /\ compat.tokens[1].kind = "range" /\ ValidToken(compat.tokens[1]))
    => LET t == compat.tokens[1] IN
       ReturnedExactly(compat.result, SiblingYear(t.a, t.b)..SiblingYear(t.b, t.a))

\* ----------------------------------------------------------------- C20
\* the valid tokens of a specification, in their order
ValidTokens(tokens) == SelectSeq(tokens, ValidToken)

\* C20: for a row whose year specification has valid tokens and tokens that
\* are no years, build_compatibility_data gives the row the years of the valid
\* tokens (what expand_years returns for the valid tokens alone, joined with
\* commas), and the row is finished without an error leaving it.
C20_UnparsableTokensDropped ==
    (/\ compat.pc = "done"
     /\ ValidTokens(compat.tokens) # <<>>
     /\ ValidTokens(compat.tokens) # compat.tokens)
    => LET alone == expand_years(Render(ValidTokens(compat.tokens), <<",">>)) IN
       /\ ~alone.raised
       /\ compat.expanded_years = Join(alone.years, <<",">>)

\* ----------------------------------------------------------------- C21
\* the branch stock push of the update
BranchPush == upd.pushes[1]

\* C21: the branch stock payload has one entry (branch and stock_qty) for each
\* bin with a quantity above 0 and none for the others; the entries are
\* numbered 0..n-1 in the order of the bins, and the branch count it carries is n.
C21_BranchEntriesArePositiveBins ==
    (upd.pc \in {"stock", "done"}) =>
       LET meta == BranchPush.payload.meta_data
           positive == {k \in 1..Len(upd.bins) : upd.bins[k].actual_qty > 0}
           n == Cardinality(positive)
           \* the position among the bins of the entry numbered i
           bin_of(i) == CHOOSE k \in positive :
                            Cardinality({j \in positive : j < k}) = i
       IN  /\ BranchPush.kind = "branch_stock"
           /\ DOMAIN meta = {<<"branch_stock">>}
                  \cup {<<"branch_stock", i, "branch">> : i \in 0..(n - 1)}
                  \cup {<<"branch_stock", i, "stock_qty">> : i \in 0..(n - 1)}
           /\ meta[<<"branch_stock">>] = StrOf(n)
           /\ \A i \in 0..(n - 1) :
                 /\ meta[<<"branch_stock", i, "branch">>] =
                        branch_name(upd.bins[bin_of(i)].warehouse)
                 /\ meta[<<"branch_stock", i, "stock_qty">>] =
                        StrOf(IntOfHalves(upd.bins[bin_of(i)].actual_qty))

\* the bins of the example (5 in the main warehouse, 0 in branch B) gave one entry
C21_Witness ==
    /\ upd.pc = "done"
    /\ Len(upd.bins) = 3
    /\ upd.bins[1].actual_qty = 0 /\ upd.bins[2].actual_qty = 2 /\ upd.bins[3].actual_qty = -1
    /\ DOMAIN BranchPush.payload.meta_data =
          {<<"branch_stock">>, <<"branch_stock", 0, "branch">>, <<"branch_stock", 0, "stock_qty">>}
    /\ BranchPush.payload.meta_data[<<"branch_stock">>] = <<"1">>

\* ----------------------------------------------------------------- C22
\* the stock push of the update
StockPush == upd.pushes[2]

\* C22: the stock status pushed is instock exactly when the sum of the Item's
\* bin quantities is above 0 and onbackorder otherwise, and backorders is
\* notify exactly when the status is onbackorder.
C22_StockStatusFromSum ==
    (upd.pc = "done") =>
       LET f == StockPush.payload.fields IN
       /\ StockPush.kind = "stock"
       /\ f.stock_status \in {"instock", "onbackorder"}
       /\ (f.stock_status = "instock") <=> (SumQty(upd.bins) > 0)
       /\ (f.backorders = "notify") <=> (f.stock_status = "onbackorder")

\* a bin above 0 and a bin further below 0: the sum is not above 0, onbackorder
C22_Witness ==
    /\ upd.pc = "done"
    /\ Len(upd.bins) = 3
    /\ \E k \in 1..3 : upd.bins[k].actual_qty > 0
    /\ SumQty(upd.bins) < 0
    /\ StockPush.payload.fields.stock_status = "onbackorder"
    /\ StockPush.payload.fields.backorders = "notify"

\* ----------------------------------------------------------------- C23
\* the rows of the children of the bundle B1, child after child
ChildRows == upd.custom_compatibility["I1"] \o upd.custom_compatibility["I2"]

\* the record of `row` stands in `meta_data` under the index i
RecordAt(meta_data, i, row) ==
    /\ meta_data[<<"add_compactable_details", i, "brand">>] = translate_text(row.brand)
    /\ meta_data[<<"add_compactable_details", i, "model">>] = translate_text(row.model)
    /\ meta_data[<<"add_compactable_details", i, "years">>] = ExpandedYears(row)
    /\ meta_data[<<"add_compactable_details", i, "variant">>] = row.fuel
    /\ meta_data[<<"add_compactable_details", i, "engine_size">>] = row.engine_size

\* C23: build_compatibility_data takes the Item's own rows when the Item is no
\* bundle, the rows of all children of its bundle, child after child, when it
\* is a bundle without rows of its own, and only its own rows when it is a
\* bundle that has some; the count it returns is the number of those rows and
\* its payload has one record per row, under the row's index, in that order.
C23_CompatibilityRowSource ==
    (upd.pc = "done") =>
       LET own == upd.custom_compatibility[upd.item_code]
           rows == IF ~is_bundle(upd.item_code) THEN own
                   ELSE IF own = <<>> THEN ChildRows
                   ELSE own
       IN  /\ upd.built.count = Len(rows)
           /\ DOMAIN upd.built.meta_data =
                  {<<"add_compactable_details", i, part>> :
                      i \in 0..(Len(rows) - 1), part \in CompatParts}
           /\ \A i \in 0..(Len(rows) - 1) : RecordAt(upd.built.meta_data, i, rows[i + 1])

\* a bundle without rows of its own took the three rows of its two children
C23_Witness ==
    /\ upd.pc = "done"
    /\ upd.item_code = "B1" /\ is_bundle("B1")
    /\ upd.custom_compatibility["B1"] = <<>>
    /\ upd.custom_compatibility["I1"] = <<RowB>>
    /\ upd.custom_compatibility["I2"] = <<RowA, RowB>>
    /\ upd.built.count = 3
    /\ upd.built.meta_data[<<"add_compactable_details", 1, "brand">>] = "Toyota"

\* ----------------------------------------------------------------- C24
\* the keys of the compatibility block: the indexed ones and the two count keys
CompatKey(key) == key[1] \in {"add_compactable_details", "_add_compactable_details"}

\* C24: when build_compatibility_data counts 0 rows for the Item, no push of
\* the update carries a compatibility key, indexed or count.
C24_NoRowsNoCompatibilityMeta ==
    (upd.pc = "done" /\ upd.built.count = 0) =>
       \A k \in 1..Len(upd.pushes) :
          \A key \in DOMAIN upd.pushes[k].payload.meta_data : ~CompatKey(key)

\* a bundle whose children have no rows either: only mark_spare_part was pushed
C24_Witness ==
    /\ upd.pc = "done"
    /\ upd.item_code = "B1" /\ is_bundle("B1")
    /\ upd.built.count = 0
    /\ Len(upd.pushes) = 1
    /\ upd.pushes[1].kind = "mark_spare_part"

\* ----------------------------------------------------------------- C25
\* the pass called get_or_create_wc_category twice with the same name
SameNameTwice ==
    /\ upd.pc \in {"cat_push", "done"}
    /\ Len(upd.ids) = 2
    /\ upd.main_cat = upd.sub_cat

\* C25: when one pass calls get_or_create_wc_category twice with the same name
\* (main category and sub-category with the same name), both calls return the
\* same category id and the pass makes at most one create call on the remote,
\* also when the first call had to create the category.
C25_CategoryResolvedOnce ==
    SameNameTwice => (upd.ids[1] = upd.ids[2] /\ Len(upd.creates) <= 1)

\* ----------------------------------------------------------------- C26
\* the Items sold with this one that are linked to a product
SoldLinked == {upd.sold[k] : k \in 1..Len(upd.sold)} \cap upd.linked

\* C26: for an Item with Items sold on its invoices, the bought-together list
\* pushed is the ids of the 3 linked Items sold with it most often (of all of
\* them when they are fewer than 3), equal counts in the order they were met
\* first; an Item without a product never takes the place of a linked one.
C26_TopThreeAmongLinked ==
    (upd.pc = "done" /\ SoldLinked # {}) =>
       LET top == MostCommon(upd.sold, SoldLinked, 3) IN
       /\ Len(upd.pushes) >= 1
       /\ upd.pushes[1].payload.fields.bundle_product_items =
             [k \in 1..Len(top) |-> StrOf(LinkId(top[k]))]

LinkedOn(code, server, id) ==
    \E k \in 1..Len(items[code].woocommerce_servers) :
        /\ items[code].woocommerce_servers[k].woocommerce_server = server
        /\ items[code].woocommerce_servers[k].woocommerce_id = id

\* C28: an Item and a product are matched on server and id together: the Item
\* found for a product has a row with the product's server and id, and every
\* child id in the payload of a bundle product is the id the child has on the
\* server the bundle is created on, never one from a row of another server.
C28_ResolutionWithinServer ==
    \A w \in DOMAIN run :
        LET r == run[w] IN
        /\ (r.pc = "sync" /\ r.wc_arg # NoDoc /\ r.item # NoItem) =>
               LinkedOn(r.item.item_code, r.wc_arg.woocommerce_server,
                        r.wc_arg.woocommerce_id)
        /\ (r.pc = "bundle_insert") =>
               \A e \in r.wc_product.woosb_ids :
                   LinkedOn(e.sku, r.wc_product.woocommerce_server, e.id)

\* ----------------------------------------------------------------- C29
\* C29: every combined identity that is built is scope, ":", remote id with no
\* ":" inside the scope, and splitting it at the delimiter gives back the scope
\* and the id it was built from.
C29_IdentityRoundTrip ==
    \A rec \in cust.records :
        /\ \A k \in 1..Len(rec.woocommerce_server) : rec.woocommerce_server[k] # ":"
        /\ RSplitColon(rec.name) = <<rec.woocommerce_server, StrOf(rec.id)>>

\* ----------------------------------------------------------------- C30
\* the call under way was made with the name of a customer of that server who
\* has an email
ForCustomerWithEmail ==
    \E url \in ServerUrls : \E c \in cust.remote[url] :
        c.email # "" /\ cust.call.name = CustomerName(url, c.id)

\* the email of the customer the call was made for
EmailOfCall ==
    LET parts == RSplitColon(cust.call.name) IN
    FetchCustomer(cust.remote, parts[1], parts[2]).email

\* what a run_customer_sync that returned has to have done
ReturnedRight ==
    LET call == cust.call
        with_email == {c \in cust.customers : c.email_id = EmailOfCall}
    IN  /\ call.result # ""
        /\ IF call.before # {}
           THEN /\ call.inserted = NoName
                /\ call.result_name \in {c.name : c \in call.before}
           ELSE /\ call.inserted # NoName
                /\ call.result_name = call.inserted
        /\ Cardinality(with_email) = 1

StoredCount(key) ==
    IF key \in DOMAIN upd.remote THEN upd.remote[key] ELSE StrOf(0)

\* C31: after updates of the product whose pushes were all answered, the
\* remote's branch stock entries 0..n-1 are the current positive bins in order
\* and its branch count is n, and its compatibility entries 0..m-1 are the
\* current rows in order and its compatibility count is m, also when n or m
\* went down to 0.
C31_IndexedBlocksDescribeCurrent ==
    (upd.pc = "done" /\ upd.answered) =>
       LET entries == branch_entries(upd.bins)
           rows == upd.rows
       IN  /\ StoredCount(<<"branch_stock">>) = StrOf(Len(entries))
           /\ \A i \in 0..(Len(entries) - 1) :
                 /\ upd.remote[<<"branch_stock", i, "branch">>] =
                       branch_name(entries[i + 1].warehouse)
                 /\ upd.remote[<<"branch_stock", i, "stock_qty">>] =
                       StrOf(IntOfHalves(entries[i + 1].actual_qty))
           /\ StoredCount(<<"add_compactable_details">>) = StrOf(Len(rows))
           /\ \A i \in 0..(Len(rows) - 1) :
                 /\ upd.remote[<<"add_compactable_details", i, "brand">>] =
                       translate_text(rows[i + 1].brand)
                 /\ upd.remote[<<"add_compactable_details", i, "model">>] =
                       translate_text(rows[i + 1].model)
                 /\ upd.remote[<<"add_compactable_details", i, "years">>] =
                       ExpandedYears(rows[i + 1])
                 /\ upd.remote[<<"add_compactable_details", i, "variant">>] =
                       rows[i + 1].fuel
                 /\ upd.remote[<<"add_compactable_details", i, "engine_size">>] =
                       rows[i + 1].engine_size

\* ----------------------------------------------------------------- C32
\* the reconciliations run_item_sync has finished for the rows of I1
FinishedLinks == {upd.recs[k] : k \in 1..Len(upd.recs)}

\* C32: for an Item with rows for two servers, each reconciliation of the loop
\* reads the enable_sync only of the server of its own row and sends its pushes
\* and category calls only to that server.
C32_EachLinkUsesOwnServer ==
    Len(items["I1"].woocommerce_servers) = 2 =>
       \A rec \in FinishedLinks :
          /\ rec.flags \subseteq {rec.link}
          /\ rec.writes \subseteq {rec.link}

\* ----------------------------------------------------------------- C33
\* C33: no save of the Item made by the synchronisation itself enqueues a job
\* through run_item_sync_from_hook, so the jobs enqueued are at most one for
\* each save made outside it.
C33_EngineSaveEnqueuesNothing ==
    /\ upd.by_engine = 0
    /\ upd.by_user + upd.by_engine <= upd.user_saves

\* ----------------------------------------------------------------- C34
\* C34: a job clear_sync_hash_and_run_item_sync sets to None the marker of the
\* rows with enabled = 1 and changes no other row, calls run_item_sync only if
\* there is such a row, and the synchronisation it starts runs and makes remote
\* calls only for the rows that were enabled and leaves the others disabled.
C34_HookJobTouchesEnabledRowsOnly ==
    upd.job.started =>
       LET rows0 == upd.job.rows0
           cleared == upd.job.cleared
           rows == upd.item.woocommerce_servers
           enabled0 == {k \in 1..Len(rows0) : rows0[k].enabled}
       IN  /\ Len(cleared) = Len(rows0)
           /\ \A k \in 1..Len(rows0) :
                 cleared[k] = IF k \in enabled0
                              THEN [rows0[k] EXCEPT !.woocommerce_last_sync_hash = NoHash]
                              ELSE rows0[k]
           /\ upd.job.called <=> enabled0 # {}
           /\ upd.job.ran \subseteq enabled0
           /\ upd.job.remote \subseteq enabled0
           /\ \A k \in 1..Len(rows0) : k \notin enabled0 => ~rows[k].enabled

\* ----------------------------------------------------------------- C35
\* C35: a run_item_sync that the validation skipped (sync disabled on the Item,
\* or no positive price) made no remote call and left every row of the Item, id
\* and marker, as it was before the request, whether it was called directly or
\* by a job clear_sync_hash_and_run_item_sync.
C35_SkippedRequestChangesNothing ==
    upd.job.skipped =>
       /\ upd.job.ran = {}
       /\ upd.job.remote = {}
       /\ upd.item.woocommerce_servers = upd.job.rows0

\* ----------------------------------------------------------------- C36
\* C36: once a polling pass has completed, the date the next pass reads as its
\* default date_time_from is the time at which that pass finished; and a pass
\* that has no date raises and calls run_item_sync for nothing.
C36_PollingDateAdvances ==
    /\ (upd.pc = "idle" /\ upd.pass.finished # NoDate /\ ~upd.pass.raised) =>
          upd.integration_settings = upd.pass.finished
    /\ \A k \in 1..Len(upd.passes) :
          upd.passes[k].from = NoDate =>
             upd.passes[k].raised /\ upd.passes[k].triggered = 0

\* ----------------------------------------------------------------- C37
\* C37: in one update mark_spare_part is pushed as "1" exactly when
\* build_compatibility_data counts more than 0 rows for the Item, bundles that
\* take the rows of their children included.
C37_SparePartFlagMatchesCompatibility ==
    (upd.pc = "done") =>
       /\ upd.pushes[1].kind = "mark_spare_part"
       /\ (upd.pushes[1].payload.meta_data[<<"mark_spare_part">>] = "1")
             <=> (upd.built.count > 0)

\* ----------------------------------------------------------------- C38
\* C38: no bought-together list pushed for the product holds the product's
\* own woocommerce_id, whether it came from the invoices or from the random
\* fallback.
C38_BoughtTogetherWithoutSelf ==
    \A k \in 1..Len(upd.pushes) :
       LET ids == upd.pushes[k].payload.fields.bundle_product_items IN
       \A j \in 1..Len(ids) : ids[j] # StrOf(LinkId(CurrentItem))

====
